---- MODULE Spec2Model ----
(***************************************************************************)
(* A model of aptutil's two storage engines.                               *)
(*                                                                         *)
(*   cacher.Storage (src/cacher/storage.go): the on-disk LRU cache, with   *)
(*   its map, its container/heap array, used and lclock.  SpecCache.       *)
(*                                                                         *)
(*   mirror.Mirror (src/mirror/mirror.go): Update, the download pipeline   *)
(*   (semaphore, producer, consumer, download goroutines) and the          *)
(*   publication of the snapshot symlink.  SpecMirror.                     *)
(***************************************************************************)
EXTENDS Integers, Sequences, FiniteSets, TLC

VARIABLES
    \* ---- cacher.Storage ----
    capacity,   \* Storage.capacity, fixed by NewStorage
    used,       \* Storage.used
    cache,      \* Storage.cache: path -> entry (an entry is a heap object: its id)
    lru,        \* Storage.lru: the heap array, of entry ids
    ents,       \* the entry objects: id -> [path, size, sum, atime, index]
    lclock,     \* Storage.lclock
    disk,       \* the files <dir>/<p>.cache: path -> data
    last,       \* what the last public operation was and returned
    \* ---- mirror.Mirror ----
    main,       \* Update: where it is (pc), the suite, the releases dispatched and received
    ctxDone,    \* the context given to Update is cancelled
    sem,        \* Mirror.semaphore: the permits in the channel
    dl,         \* the download goroutines of the current file list: file -> state
    lingering,  \* release downloads of an earlier list that delivered and hold a permit
    results,    \* the results channel: [q: its buffer, closed]
    prod,       \* reuseOrDownload: [pc, i, err]
    cons,       \* recvResult: [pc, err]
    envErr,     \* downloadFiles' Environment was cancelled with an error
    reused,     \* reuseOrDownload's reused list
    dlfil,      \* recvResult's dlfil list
    taken,      \* the results received from the channel for the current file list
    fs,         \* <dir>: the published symlink, the temporary symlink, syncs, info saved
    \* ---- one Mirror.download goroutine, statement by statement ----
    dpc,        \* where it is: "retry", "sleep", "request", "store", "deliver", "release", "done"
    retries,    \* the local variable retries
    targets,    \* len(targets): the path, and with by-hash the three by-hash paths
    dctx,       \* the goroutine's context is cancelled
    dres,       \* the dlResult r: [status, err, fi]
    sent,       \* the results put on the channel
    released,   \* the permits put back
    backoff,    \* the seconds the last time.Sleep took
    got,        \* what the last request ended with
    reqs,       \* the calls of client.Do
    dargs,      \* the arguments of download: [byhash, fi (given or nil)]
    asked,      \* the target of each request made, in order
    stored,     \* what m.store returned last
    \* ---- cacher.Storage called from several goroutines ----
    mu,         \* Storage.mu: 0, or the goroutine that holds it
    tpc,        \* each goroutine: "idle", "wait" (at mu.Lock), or its place under the lock
    top,        \* each goroutine's call: [kind, path]
    tret,       \* what each goroutine's last call returned
    kcache,     \* the keys of Storage.cache
    klen,       \* len(Storage.lru)
    katime,     \* the atime of the entry of each path in lru
    kclock,     \* Storage.lclock
    kbase,      \* len(lru) and the call's path being cached when mu was last taken
    \* ---- mirror.Storage ----
    sid,         \* the id the Storage was constructed with
    infoMap,     \* path -> FileInfo of the files stored
    lockedPaths, \* the paths being written
    sidecar,     \* the metadata file in the directory: [present, json]
    spc,         \* each storing goroutine: "idle" or "writing"
    sarg,        \* the arguments of each goroutine's Store: [path, fi, data]
    sret,        \* what each goroutine's last Store returned
    wins,        \* path -> the Store calls on it that succeeded in this snapshot
    slast,       \* the last call that returned: [op, fi, hit]
    \* ---- the files cacher.Storage touches, by their full paths ----
    pfiles,      \* the cache files in the file system, as absolute paths
    pcache,      \* the keys of Storage.cache
    pcalls,      \* the Insert and Delete calls made so far
    plast,       \* the last call: [op, p, res]
    \* ---- downloadRelease's loop over the results ----
    rels,        \* the release files of the suite: [gpg, by, status, lists]
    rdone,       \* the releases whose result has been received
    byhash,      \* the local variable byhash
    filMap,      \* filMap[p], for the one path p the releases may list
    rret         \* "" while the loop runs, then "ok" or the error returned

cacheVars == <<capacity, used, cache, lru, ents, lclock, disk, last>>

mirrorVars == <<main, ctxDone, sem, dl, lingering, results, prod, cons, envErr,
                reused, dlfil, taken, fs>>

downloadVars ==
    <<dpc, retries, targets, dctx, dres, sent, released, backoff, got, reqs, dargs,
      asked, stored>>

lockVars == <<mu, tpc, top, tret, kcache, klen, katime, kclock, kbase>>

storeVars == <<sid, infoMap, lockedPaths, sidecar, spc, sarg, sret, wins, slast>>

pathVars == <<pfiles, pcache, pcalls, plast>>

releaseVars == <<rels, rdone, byhash, filMap, rret>>

auxVars == <<downloadVars, lockVars, storeVars, pathVars, releaseVars>>

vars == <<cacheVars, mirrorVars, auxVars>>

-----------------------------------------------------------------------------
(* Bounds of the cache model. *)

MaxSize == 2
MaxCap == 2
MaxClock == 3

\* The paths Insert is called with, in the lexical order filepath.Walk visits them.
GoodPaths == <<"a", "b", "c">>
BadPaths == {"", ".", "./a", "/a"}
GoodPathSet == {GoodPaths[i] : i \in DOMAIN GoodPaths}
Tags == {"x", "y"}

\* The contents of a file: its length and which bytes of that length it holds.
\* The files streamed into the cache hold the bytes "x"; a caller's FileInfo may
\* also be that of the bytes "y" of the same length.
Sizes == 1..MaxSize
Data == [size : Sizes, tag : {"x"}]
AnyData == [size : Sizes, tag : Tags]
Capacities == 0..MaxCap

-----------------------------------------------------------------------------
(* apt.FileInfo, as far as the cache uses it. *)

NoSum == <<>>

\* The digests CopyWithFileInfo / CalcChecksums compute of a content.
SumOf(d) == <<d.size, d.tag>>

MakeFileInfoNoChecksum(p, size) == [path |-> p, size |-> size, sum |-> NoSum]

CopyWithFileInfo(d, p) == [path |-> p, size |-> d.size, sum |-> SumOf(d)]

HasChecksum(fi) == fi.sum # NoSum

Same(a, b) ==
    /\ a.size = b.size
    /\ (HasChecksum(a) /\ HasChecksum(b)) => a.sum = b.sum

-----------------------------------------------------------------------------
(* filepath.Clean and filepath.IsAbs on the paths of the model. *)

Clean(p) ==
    CASE p = "" -> "."
      [] p = "./a" -> "a"
      [] OTHER -> p

IsAbs(p) == p = "/a"

\* (the path checks without the comparison to filepath.Clean)
IsBadPathNoClean(p) == IsAbs(p) \/ p = "."

IsBadPath(p) == p # Clean(p) \/ IsAbs(p) \/ p = "."

-----------------------------------------------------------------------------
(* Functions as maps. *)

Without(f, k) == [x \in DOMAIN f \ {k} |-> f[x]]

With(f, k, v) == [x \in DOMAIN f \cup {k} |-> IF x = k THEN v ELSE f[x]]

Range(s) == {s[i] : i \in DOMAIN s}

EmptyMap == [x \in {} |-> 0]

\* Go's integer division truncates toward zero.
GoDiv(a, b) == IF a < 0 THEN -((-a) \div b) ELSE a \div b

-----------------------------------------------------------------------------
(* heap.Interface of Storage and container/heap over it.  A heap is the    *)
(* pair h = [lru, ents]; positions are Go's, from 0.                       *)

At(h, i) == h.lru[i + 1]

HLen(h) == Len(h.lru)

\* (the comparison turned around)
LessNewestFirst(h, i, j) == h.ents[At(h, i)].atime > h.ents[At(h, j)].atime

Less(h, i, j) == h.ents[At(h, i)].atime < h.ents[At(h, j)].atime

Swap(h, i, j) ==
    LET l2 == [h.lru EXCEPT ![i + 1] = h.lru[j + 1], ![j + 1] = h.lru[i + 1]]
        e1 == [h.ents EXCEPT ![l2[i + 1]].index = i]
        e2 == [e1 EXCEPT ![l2[j + 1]].index = j]
    IN  [lru |-> l2, ents |-> e2]

Push(h, id) ==
    [lru |-> Append(h.lru, id),
     ents |-> [h.ents EXCEPT ![id].index = Len(h.lru)]]

\* Pop of heap.Interface: the last slot leaves, its entry's index becomes -1.
Pop(h) ==
    LET n == Len(h.lru)
        id == h.lru[n]
    IN  [h |-> [lru |-> SubSeq(h.lru, 1, n - 1),
                ents |-> [h.ents EXCEPT ![id].index = -1]],
         id |-> id]

RECURSIVE up(_, _)
up(h, j) ==
    LET i == GoDiv(j - 1, 2)
    IN  IF i = j \/ ~Less(h, j, i) THEN h
        ELSE up(Swap(h, i, j), i)

RECURSIVE downFrom(_, _, _)
downFrom(h, i, n) ==
    LET j1 == 2 * i + 1
    IN  IF j1 >= n THEN [h |-> h, i |-> i]
        ELSE LET j == IF j1 + 1 < n /\ Less(h, j1 + 1, j1) THEN j1 + 1 ELSE j1
             IN  IF ~Less(h, j, i) THEN [h |-> h, i |-> i]
                 ELSE downFrom(Swap(h, i, j), j, n)

\* down returns whether the element moved.
down(h, i0, n) ==
    LET r == downFrom(h, i0, n)
    IN  [h |-> r.h, moved |-> r.i > i0]

RECURSIVE heapInitFrom(_, _)
heapInitFrom(h, i) ==
    IF i < 0 THEN h
    ELSE heapInitFrom(down(h, i, HLen(h)).h, i - 1)

HeapInit(h) == heapInitFrom(h, GoDiv(HLen(h), 2) - 1)

HeapPush(h, id) == up(Push(h, id), HLen(h))

HeapPop(h) ==
    LET n == HLen(h) - 1
    IN  Pop(down(Swap(h, 0, n), 0, n).h)

HeapRemove(h, i) ==
    LET n == HLen(h) - 1
    IN  IF n # i
        THEN LET s == Swap(h, i, n)
                 d == down(s, i, n)
             IN  Pop(IF d.moved THEN d.h ELSE up(d.h, i))
        ELSE Pop(h)

HeapFix(h, i) ==
    LET d == down(h, i, HLen(h))
    IN  IF d.moved THEN d.h ELSE up(d.h, i)

-----------------------------------------------------------------------------
(* The entry objects. *)

\* A fresh entry object: the least id no live entry has.
NewId(es) ==
    CHOOSE i \in 1..(Cardinality(DOMAIN es) + 1) :
        /\ i \notin DOMAIN es
        /\ \A j \in 1..(i - 1) : j \in DOMAIN es

\* An entry no longer referenced by the map or the heap array is garbage.
Collect(es, c, l) ==
    [id \in {i \in DOMAIN es : i \in Range(l) \/ \E p \in DOMAIN c : c[p] = i} |-> es[id]]

\* The state of a Storage as one value, for the operators below.
St == [used |-> used, cache |-> cache, lru |-> lru, ents |-> ents,
       lclock |-> lclock, disk |-> disk, log |-> <<>>]

Atimes(s) == {s.ents[s.cache[p]].atime : p \in DOMAIN s.cache}

-----------------------------------------------------------------------------
(* Storage.maint.  rmFail: the paths whose os.Remove fails (logged, the    *)
(* file stays).  Every eviction is logged in s.log for the properties.     *)

\* (the bound of the doc comment, "until used < capacity", and no test of capacity)
MaintGuardStrict(s) == s.used >= capacity

MaintGuard(s) == capacity > 0 /\ s.used > capacity

RECURSIVE maint(_, _)
maint(s, rmFail) ==
    IF MaintGuard(s) /\ Len(s.lru) > 0
    THEN LET r == HeapPop([lru |-> s.lru, ents |-> s.ents])
             e == r.h.ents[r.id]
             c2 == Without(s.cache, e.path)
         IN  maint([s EXCEPT
                      !.lru = r.h.lru,
                      !.cache = c2,
                      !.ents = Collect(r.h.ents, c2, r.h.lru),
                      !.used = s.used - e.size,
                      !.disk = IF e.path \in rmFail THEN s.disk
                               ELSE Without(s.disk, e.path),
                      !.log = Append(s.log,
                                [path |-> e.path, atime |-> e.atime,
                                 usedBefore |-> s.used])],
                   rmFail)
    ELSE s

\* The evictions whose os.Remove may fail: none when maint has nothing to evict.
RmFails(s) ==
    IF MaintGuard(s) THEN SUBSET (DOMAIN s.cache \cap DOMAIN s.disk) ELSE {{}}

-----------------------------------------------------------------------------
(* Storage.Load.  The walk visits the .cache files in lexical order and    *)
(* may end in an error after any number of them (an unreadable directory,  *)
(* a file that vanished between readdir and lstat).                        *)

RECURSIVE walk(_, _, _)
walk(s, i, n) ==
    IF i > n THEN s
    ELSE LET p == GoodPaths[i]
         IN  IF p \notin DOMAIN s.disk \/ p \in DOMAIN s.cache
             THEN walk(s, i + 1, n)
             ELSE LET id == NewId(s.ents)
                      e == [path |-> p, size |-> s.disk[p].size, sum |-> NoSum,
                            atime |-> s.lclock, index |-> Len(s.lru)]
                  IN  walk([s EXCEPT
                              !.used = s.used + e.size,
                              !.lclock = s.lclock + 1,
                              !.lru = Append(s.lru, id),
                              !.ents = With(s.ents, id, e),
                              !.cache = With(s.cache, p, id)],
                           i + 1, n)

Walked(n) == walk(St, 1, n)

\* (a Load that does not maintain the cache after the walk)
LoadResultNoMaint(n, walkErr, rmFail) ==
    LET w == Walked(n)
    IN  IF walkErr THEN w
        ELSE LET h == HeapInit([lru |-> w.lru, ents |-> w.ents])
             IN  [w EXCEPT !.lru = h.lru, !.ents = h.ents]

LoadResult(n, walkErr, rmFail) ==
    LET w == Walked(n)
    IN  IF walkErr THEN w
        ELSE LET h == HeapInit([lru |-> w.lru, ents |-> w.ents])
             IN  maint([w EXCEPT !.lru = h.lru, !.ents = h.ents], rmFail)

Commit(s) ==
    /\ used' = s.used
    /\ cache' = s.cache
    /\ lru' = s.lru
    /\ ents' = s.ents
    /\ lclock' = s.lclock
    /\ disk' = s.disk

Load ==
    /\ \E n \in 0..Len(GoodPaths), walkErr \in BOOLEAN :
        /\ walkErr \/ n = Len(GoodPaths)
        /\ \E rmFail \in (IF walkErr THEN {{}} ELSE RmFails(Walked(n))) :
           LET s == LoadResult(n, walkErr, rmFail)
           IN  /\ s.lclock <= MaxClock
               /\ Commit(s)
               /\ last' = [op |-> "Load", path |-> "", fi |-> MakeFileInfoNoChecksum("", 0),
                           res |-> IF walkErr THEN "err" ELSE "ok", log |-> s.log]
    /\ UNCHANGED <<capacity, mirrorVars, auxVars>>

-----------------------------------------------------------------------------
(* Storage.Insert(r, p, fi).  d is what the reader r streams; hasFi and fi *)
(* are the caller's FileInfo (hasFi = FALSE: nil).                         *)

\* The path and the FileInfo are recorded for the calls that succeed: the FileInfo
\* Insert returned or the one of the entry Delete removed.
Ret(op, p, fi, res, log) ==
    last' = [op |-> op, path |-> IF res = "ok" THEN p ELSE "",
             fi |-> IF res = "ok" THEN fi ELSE MakeFileInfoNoChecksum("", 0),
             res |-> res, log |-> log]

\* (an Insert that does not look for an entry already cached at p)
KeepExisting(s, p) == s

\* The entry for p, if any, leaves the map and the heap (lines 247-265).
RemoveExisting(s, p) ==
    IF p \in DOMAIN s.cache
    THEN LET existing == s.ents[s.cache[p]]
             r == HeapRemove([lru |-> s.lru, ents |-> s.ents], existing.index)
             c2 == Without(s.cache, p)
         IN  [s EXCEPT !.disk = Without(s.disk, p),
                       !.used = s.used - existing.size,
                       !.lru = r.h.lru,
                       !.cache = c2,
                       !.ents = Collect(r.h.ents, c2, r.h.lru)]
    ELSE s

\* The new entry is pushed and the cache is maintained (lines 267-281).
AddEntry(s, p, d, fi2, rmFail) ==
    LET id == NewId(s.ents)
        e == [path |-> p, size |-> fi2.size, sum |-> fi2.sum,
              atime |-> s.lclock, index |-> 0]
        h == HeapPush([lru |-> s.lru, ents |-> With(s.ents, id, e)], id)
    IN  maint([s EXCEPT !.disk = With(s.disk, p, d),
                        !.used = s.used + fi2.size,
                        !.lclock = s.lclock + 1,
                        !.lru = h.lru,
                        !.ents = h.ents,
                        !.cache = With(s.cache, p, id)],
              rmFail)

\* Insert's caller passes no FileInfo (nil), one without digests, or that of some
\* content.
NilInfo == [path |-> "", size |-> -1, sum |-> NoSum]

InfosFor(p) ==
    {MakeFileInfoNoChecksum(p, n) : n \in Sizes} \cup {CopyWithFileInfo(d, p) : d \in AnyData}

\* (an Insert that makes room at p before it looks at the caller's FileInfo)
RejectedAfterRemoval(s, p) ==
    IF p \in DOMAIN s.cache
    THEN LET existing == s.ents[s.cache[p]]
             r == HeapRemove([lru |-> s.lru, ents |-> s.ents], existing.index)
             c2 == Without(s.cache, p)
         IN  [s EXCEPT !.disk = Without(s.disk, p),
                       !.used = s.used - existing.size,
                       !.lru = r.h.lru,
                       !.cache = c2,
                       !.ents = Collect(r.h.ents, c2, r.h.lru)]
    ELSE s

\* Lines 226-228: ErrInvalidData is returned before the lock is taken and before
\* anything but the temporary file, which the deferred function removes, is written.
Rejected(s, p) == s

\* Line 226: the caller's FileInfo disagrees with the one of the streamed bytes.
Invalid(fi, fi2) == fi # NilInfo /\ HasChecksum(fi) /\ ~Same(fi, fi2)

Insert ==
    /\ \E p \in GoodPathSet \cup BadPaths :
        LET none == MakeFileInfoNoChecksum("", 0)
        IN  IF IsBadPath(p)
            THEN /\ Ret("Insert", p, none, "ErrBadPath", <<>>)
                 /\ UNCHANGED <<used, cache, lru, ents, lclock, disk>>
            ELSE \E d \in Data, fault \in {"none", "io", "invalid", "remove", "rename"} :
                 LET fi2 == CopyWithFileInfo(d, p)
                 IN  IF fault = "io"
                     THEN \* TempFile, CopyWithFileInfo, Sync, Stat or MkdirAll failed
                          /\ Ret("Insert", p, none, "err", <<>>)
                          /\ UNCHANGED <<used, cache, lru, ents, lclock, disk>>
                     ELSE IF fault = "invalid"
                     THEN /\ {fi \in InfosFor(p) \cup {NilInfo} : Invalid(fi, fi2)} # {}
                          /\ Ret("Insert", p, none, "ErrInvalidData", <<>>)
                          /\ Commit(Rejected(St, p))
                     ELSE /\ {fi \in InfosFor(p) \cup {NilInfo} : ~Invalid(fi, fi2)} # {}
                          /\ IF p \in DOMAIN cache /\ p \in DOMAIN disk /\ fault = "remove"
                             THEN \* os.Remove(destpath) failed, and not with IsNotExist
                                  /\ Ret("Insert", p, none, "err", <<>>)
                                  /\ UNCHANGED <<used, cache, lru, ents, lclock, disk>>
                             ELSE LET s1 == RemoveExisting(St, p)
                                  IN  IF fault = "rename"
                                      THEN /\ Commit(s1)
                                           /\ Ret("Insert", p, none, "err", <<>>)
                                      ELSE /\ lclock < MaxClock
                                           /\ \E rmFail \in RmFails([s1 EXCEPT !.used = s1.used + d.size]) :
                                                LET s2 == AddEntry(s1, p, d, fi2, rmFail)
                                                IN  /\ Commit(s2)
                                                    /\ Ret("Insert", p, fi2, "ok", s2.log)
    /\ UNCHANGED <<capacity, mirrorVars, auxVars>>

-----------------------------------------------------------------------------
(* Storage.Lookup(fi). *)

\* calcChecksum: the digests of a Load-enrolled entry are those of the file.
CalcChecksum(s, id) ==
    [s EXCEPT !.ents[id].sum = SumOf(s.disk[s.ents[id].path])]

\* (a Lookup that does not advance the clock)
TouchNoTick(s, id) ==
    LET e1 == [s.ents EXCEPT ![id].atime = s.lclock]
        h == HeapFix([lru |-> s.lru, ents |-> e1], e1[id].index)
    IN  [s EXCEPT !.lru = h.lru, !.ents = h.ents]

Touch(s, id) ==
    LET e1 == [s.ents EXCEPT ![id].atime = s.lclock]
        h == HeapFix([lru |-> s.lru, ents |-> e1], e1[id].index)
    IN  [s EXCEPT !.lclock = s.lclock + 1, !.lru = h.lru, !.ents = h.ents]

EntryInfo(e) == [path |-> e.path, size |-> e.size, sum |-> e.sum]

Lookup ==
    /\ \E q \in GoodPathSet : \E fi \in InfosFor(q) :
        LET p == fi.path
            none == MakeFileInfoNoChecksum("", 0)
        IN  IF p \notin DOMAIN cache
            THEN /\ Ret("Lookup", p, none, "ErrNotFound", <<>>)
                 /\ UNCHANGED <<used, cache, lru, ents, lclock, disk>>
            ELSE LET id == cache[p]
                 IN  IF ~HasChecksum(ents[id]) /\ p \notin DOMAIN disk
                     THEN \* readData failed
                          /\ Ret("Lookup", p, none, "err", <<>>)
                          /\ UNCHANGED <<used, cache, lru, ents, lclock, disk>>
                     ELSE LET s1 == IF HasChecksum(ents[id]) THEN St
                                    ELSE CalcChecksum(St, id)
                          IN  IF ~Same(fi, EntryInfo(s1.ents[id]))
                              THEN /\ Commit(s1)
                                   /\ Ret("Lookup", p, none, "ErrNotFound", <<>>)
                              ELSE /\ lclock < MaxClock
                                   /\ Commit(Touch(s1, id))
                                   /\ Ret("Lookup", p, none,
                                          IF p \in DOMAIN disk THEN "ok" ELSE "err", <<>>)
    /\ UNCHANGED <<capacity, mirrorVars, auxVars>>

-----------------------------------------------------------------------------
(* Storage.Delete(p). *)

\* (a Delete that forgets the accounting)
DeleteEntryNoUsed(s, p) ==
    LET e == s.ents[s.cache[p]]
        r == HeapRemove([lru |-> s.lru, ents |-> s.ents], e.index)
        c2 == Without(s.cache, p)
    IN  [s EXCEPT !.disk = Without(s.disk, p),
                  !.lru = r.h.lru,
                  !.cache = c2,
                  !.ents = Collect(r.h.ents, c2, r.h.lru)]

DeleteEntry(s, p) ==
    LET e == s.ents[s.cache[p]]
        r == HeapRemove([lru |-> s.lru, ents |-> s.ents], e.index)
        c2 == Without(s.cache, p)
    IN  [s EXCEPT !.disk = Without(s.disk, p),
                  !.used = s.used - e.size,
                  !.lru = r.h.lru,
                  !.cache = c2,
                  !.ents = Collect(r.h.ents, c2, r.h.lru)]

\* (every failure of os.Remove is returned, the missing file too)
RemoveFailedAlso(p, rmErr) == rmErr

\* os.Remove fails, and not because the file is missing (lines 350-354).
RemoveFailed(p, rmErr) == p \in DOMAIN disk /\ rmErr

Delete ==
    /\ \E p \in GoodPathSet, rmErr \in BOOLEAN :
        LET none == MakeFileInfoNoChecksum("", 0)
        IN  IF p \notin DOMAIN cache
            THEN /\ Ret("Delete", p, none, "ok", <<>>)
                 /\ UNCHANGED <<used, cache, lru, ents, lclock, disk>>
            ELSE IF RemoveFailed(p, rmErr)
            THEN \* os.Remove failed, and not with IsNotExist
                 /\ last' = [op |-> "Delete", path |-> p, fi |-> none,
                             res |-> "err", log |-> <<>>]
                 /\ UNCHANGED <<used, cache, lru, ents, lclock, disk>>
            ELSE /\ Commit(DeleteEntry(St, p))
                 /\ Ret("Delete", p, EntryInfo(ents[cache[p]]), "ok", <<>>)
    /\ UNCHANGED <<capacity, mirrorVars, auxVars>>

\* A cache file is removed behind the Storage's back: what Insert and Delete
\* meet as "removed already".
FileVanishes ==
    \E p \in DOMAIN disk :
        /\ disk' = Without(disk, p)
        /\ UNCHANGED <<capacity, used, cache, lru, ents, lclock, last, mirrorVars,
                     auxVars>>

-----------------------------------------------------------------------------
(* NewStorage on a directory that may hold cache files already. *)

\* The directory is empty, or holds one file per path already (as TestStorageLoad's).
Populated ==
    [p \in GoodPathSet |->
        CASE p = GoodPaths[1] -> [size |-> 1, tag |-> "x"]
          [] p = GoodPaths[2] -> [size |-> MaxSize, tag |-> "x"]
          [] OTHER -> [size |-> 1, tag |-> "x"]]

InitDisks == {EmptyMap, Populated}

InitCache ==
    /\ capacity \in Capacities
    /\ used = 0
    /\ cache = EmptyMap
    /\ lru = <<>>
    /\ ents = EmptyMap
    /\ lclock = 0
    /\ disk \in InitDisks
    /\ last = [op |-> "NewStorage", path |-> "", fi |-> MakeFileInfoNoChecksum("", 0),
               res |-> "ok", log |-> <<>>]

NextCache == Load \/ Insert \/ Lookup \/ Delete \/ FileVanishes

-----------------------------------------------------------------------------
(* Properties of cacher.Storage, checked under SpecCache.                  *)

RECURSIVE SumSizes(_)
SumSizes(ps) ==
    IF ps = {} THEN 0
    ELSE LET p == CHOOSE x \in ps : TRUE
         IN  ents[cache[p]].size + SumSizes(ps \ {p})

AtimeOf(p) == ents[cache[p]].atime

\* C1: with capacity > 0, used <= capacity holds whenever a public operation has
\* returned, whether it succeeded or failed.
CapacityBound == capacity > 0 => used <= capacity

AccountingInv ==
    /\ used = SumSizes(DOMAIN cache)
    /\ Len(lru) = Cardinality(DOMAIN cache)
    /\ Range(lru) = {cache[p] : p \in DOMAIN cache}
    /\ \A p \in DOMAIN cache : ents[cache[p]].path = p
    /\ \A i \in DOMAIN lru : ents[lru[i]].index = i - 1
    /\ \A i \in DOMAIN lru :
        i > 1 => ents[lru[((i - 2) \div 2) + 1]].atime <= ents[lru[i]].atime

AccountingWitness ==
    /\ last.op = "Delete"
    /\ last.res = "ok"
    /\ last.fi.path = last.path
    /\ last.path \in GoodPathSet
    /\ Len(lru) = 2

\* C4: after a successful Lookup of p, p's atime is greater than the atime of every
\* other entry, lclock is greater than every atime, and no two entries share an
\* atime.
LookupTouches ==
    /\ (last.op = "Lookup" /\ last.res = "ok") =>
        /\ last.path \in DOMAIN cache
        /\ \A q \in DOMAIN cache \ {last.path} : AtimeOf(last.path) > AtimeOf(q)
    /\ \A p \in DOMAIN cache : lclock > AtimeOf(p)
    /\ \A p, q \in DOMAIN cache : p # q => AtimeOf(p) # AtimeOf(q)

LookupWitness ==
    /\ last.op = "Lookup"
    /\ last.res = "ok"
    /\ \E q \in DOMAIN cache \ {last.path} : ~HasChecksum(ents[cache[q]])

\* What Lookup(fi) needs to succeed: an entry at fi's path, a readable file behind
\* it, and fi.Same of the entry's FileInfo with its digests computed.
LookupSucceeds(fi) ==
    /\ fi.path \in DOMAIN cache
    /\ fi.path \in DOMAIN disk
    /\ LET e == ents[cache[fi.path]]
       IN  Same(fi, IF HasChecksum(e) THEN EntryInfo(e)
                    ELSE [EntryInfo(e) EXCEPT !.sum = SumOf(disk[fi.path])])

InsertedOnce(p) ==
    /\ p \in DOMAIN cache
    /\ Cardinality({i \in DOMAIN lru : ents[lru[i]].path = p}) = 1

InsertReturnsOk == lclock' # lclock /\ last'.op = "Insert" /\ last'.res = "ok"

\* C10 as stated: after a successful Insert(r, p, fi) returning fi2, for every
\* capacity and every size, p is cached exactly once and Lookup(fi2) succeeds.
InsertThenLookupAlways ==
    [][InsertReturnsOk => (InsertedOnce(last.path)' /\ LookupSucceeds(last.fi)')]_vars

\* C10, amended: the same when capacity = 0 or the size of the data is at most
\* the capacity.
InsertThenLookup ==
    [][(InsertReturnsOk /\ (capacity = 0 \/ last'.fi.size <= capacity))
         => (InsertedOnce(last.path)' /\ LookupSucceeds(last.fi)')]_vars

InsertWitness ==
    /\ last.op = "Insert"
    /\ last.res = "ok"
    /\ capacity > 0
    /\ last.fi.size = capacity
    /\ last.log # <<>>
    /\ InsertedOnce(last.path)
    /\ LookupSucceeds(last.fi)

\* The steps of one operation: it set last, or moved the clock.
LookupStep == last'.op = "Lookup" /\ (last' # last \/ lclock' # lclock)

InsertStep == last'.op = "Insert" /\ (last' # last \/ lclock' # lclock)

LoadStep == last'.op = "Load" /\ (last' # last \/ lclock' # lclock)

StorageUnchanged == UNCHANGED <<cache, lru, ents, used, lclock, disk>>

\* C11: Lookup(fi) either succeeds or returns ErrNotFound, and a Lookup that does
\* not succeed leaves the cache membership, used, lclock and every atime as
\* they were.
LookupOkOrNotFound ==
    [][LookupStep =>
         /\ last'.res \in {"ok", "ErrNotFound"}
         /\ last'.res # "ok" =>
              /\ DOMAIN cache' = DOMAIN cache
              /\ used' = used
              /\ lclock' = lclock
              /\ \A p \in DOMAIN cache : ents'[cache'[p]].atime = ents[cache[p]].atime]_vars

\* C12: an Insert that returns ErrInvalidData changes no cache state: cache, lru,
\* used and lclock are as before, and so are the entries and the files, the one
\* cached at the same path included.
InvalidDataChangesNothing ==
    [][(InsertStep /\ last'.res = "ErrInvalidData") => StorageUnchanged]_vars

InvalidDataWitness ==
    /\ last.op = "Insert"
    /\ last.res = "ErrInvalidData"
    /\ DOMAIN cache = GoodPathSet
    /\ DOMAIN disk = GoodPathSet

\* C13: a path that is absolute, not equal to its cleaned form, empty or "." is a
\* bad path, and an Insert that returns ErrBadPath changes no state.
BadPathChangesNothing ==
    /\ [](\A p \in BadPaths : IsBadPath(p))
    /\ [](\A p \in GoodPathSet : ~IsBadPath(p))
    /\ [][(InsertStep /\ last'.res = "ErrBadPath") => StorageUnchanged]_vars

BadPathWitness ==
    /\ last.op = "Insert"
    /\ last.res = "ErrBadPath"
    /\ cache # EmptyMap
    /\ lclock > 0

\* An Insert that succeeded on a path that was cached.
Overwrites == InsertStep /\ last'.res = "ok" /\ last'.path \in DOMAIN cache

Replaced ==
    LET p == last'.path
    IN  /\ InsertedOnce(last.path)'
        /\ Len(lru') <= Len(lru)
        /\ ents'[cache'[p]].size = last'.fi.size
        /\ last'.log = <<>> => used' = used - ents[cache[p]].size + last'.fi.size
        /\ ents'[cache'[p]].atime = lclock
        /\ \A q \in DOMAIN cache' \ {p} : ents'[cache'[q]].atime < lclock

\* C14 as stated: an Insert on a cached path always leaves a single entry for it.
OverwriteReplacesAlways == [][Overwrites => Replaced]_vars

\* C14: an Insert on a cached path, with capacity = 0 or data no larger than the
\* capacity, replaces the entry: one entry for the path, Len not grown, used
\* counting the new size and not the old one, and a fresh atime.  (Larger data is
\* evicted again by maint before Insert returns, and Len shrinks.)
OverwriteReplaces ==
    [][(Overwrites /\ (capacity = 0 \/ last'.fi.size <= capacity)) => Replaced]_vars

OverwriteWitness ==
    /\ last.op = "Insert"
    /\ last.res = "ok"
    /\ last.path \in DOMAIN cache
    /\ lclock = 3
    /\ Len(lru) = 1
    /\ capacity = 0
    /\ used = 2

\* LookupSucceeds(fi) in the state a step leads to.
LookupWillSucceed(fi) ==
    /\ fi.path \in DOMAIN cache'
    /\ fi.path \in DOMAIN disk'
    /\ LET e == ents'[cache'[fi.path]]
       IN  Same(fi, IF HasChecksum(e) THEN EntryInfo(e)
                    ELSE [EntryInfo(e) EXCEPT !.sum = SumOf(disk'[fi.path])])

\* A successful Load.
Loads == LoadStep /\ last'.res = "ok"

EvictedPaths(log) == {log[i].path : i \in DOMAIN log}

DeleteStep == last'.op = "Delete" /\ (last' # last \/ cache' # cache)

\* Delete leaves the entries of the other paths, and their files, alone.
OthersKept(p) ==
    /\ DOMAIN cache' \ {p} = DOMAIN cache \ {p}
    /\ DOMAIN disk' \ {p} = DOMAIN disk \ {p}
    /\ \A q \in DOMAIN cache \ {p} :
        /\ EntryInfo(ents'[cache'[q]]) = EntryInfo(ents[cache[q]])
        /\ ents'[cache'[q]].atime = ents[cache[q]].atime
        /\ lru'[ents'[cache'[q]].index + 1] = cache'[q]
    /\ \A q \in DOMAIN disk \ {p} : disk'[q] = disk[q]
    /\ lclock' = lclock

\* The entry of p is gone from the map and the heap, and its size from used.
Removed(p) ==
    /\ p \notin DOMAIN cache'
    /\ p \notin DOMAIN disk'
    /\ Len(lru') = Len(lru) - 1
    /\ used' = used - ents[cache[p]].size

\* C21 as stated: Delete of a cached path always removes its entry.
DeleteAlwaysRemoves ==
    [][(DeleteStep /\ last'.path \in DOMAIN cache) => Removed(last'.path)]_vars

\* C21: Delete(p) of a cached p removes the entry from cache and lru and its
\* size from used, also when the file is already missing, unless os.Remove
\* fails with another error: then Delete returns it and changes nothing.  Delete
\* of a path not cached returns nil and changes nothing, so that a second
\* Delete(p) changes nothing; the entries of other paths are never affected.
DeleteIdempotent ==
    [][DeleteStep =>
         LET p == last'.path
         IN  /\ OthersKept(p)
             /\ p \notin DOMAIN cache => (last'.res = "ok" /\ StorageUnchanged)
             /\ (p \in DOMAIN cache /\ last'.res = "ok") => Removed(p)
             /\ (p \in DOMAIN cache /\ p \notin DOMAIN disk) => last'.res = "ok"
             /\ last'.res # "ok" => (StorageUnchanged /\ p \in DOMAIN disk)
             /\ (last.op = "Delete" /\ last.res = "ok" /\ last.path = p) =>
                  (last'.res = "ok" /\ StorageUnchanged)]_vars

\* A Delete removed an entry whose file was gone, and a second entry is left.
DeleteWitness ==
    /\ last.op = "Delete"
    /\ last.res = "ok"
    /\ last.fi.size = 2
    /\ last.path \notin DOMAIN cache
    /\ Cardinality(DOMAIN cache) = 1
    /\ used = 1
    /\ Len(lru) = 1

-----------------------------------------------------------------------------
(* mirror.Mirror: Update and its download pipeline.                        *)

MaxConns == 2
NumSuites == 2
NumReleases == 2
NumFiles == 3

\* What one download goroutine delivers (dlResult.status, dlResult.err).  A 5xx or
\* a transport error is delivered once the retries are used up, "store"
\* is a failure of Storage.Store on a 200 body, "ctx" is ctx.Err().
Outcomes(cancelled) ==
    {[status |-> 200, err |-> ""], [status |-> 404, err |-> ""],
     [status |-> 403, err |-> ""], [status |-> 503, err |-> ""],
     [status |-> 200, err |-> "store"], [status |-> 0, err |-> "transport"]}
    \cup (IF cancelled THEN {[status |-> 0, err |-> "ctx"]} ELSE {})

Idle(n) == [f \in 1..n |-> "idle"]

Holding == {f \in DOMAIN dl : dl[f] \in {"run", "sent"}}

\* The context of downloadFiles' Environment: cancelled with its parent, or by the
\* first task that returns an error.
JointDone == ctxDone \/ envErr

InDownloadFiles == main.pc \in {"indices", "items"}

AllowMissingNever == FALSE

AllowMissingAlways == TRUE

\* Line 464 and line 473: the allowMissing argument of downloadFiles is true in
\* downloadIndices and false in downloadItems.
AllowMissing == main.pc = "indices"

Fail == main' = [main EXCEPT !.pc = "err"]

\* downloadFiles starts: a fresh channel, the producer and the consumer.
StartDownloadFiles ==
    /\ lingering' = lingering + Cardinality({f \in DOMAIN dl : dl[f] = "sent"})
    /\ dl' = Idle(NumFiles)
    /\ results' = [q |-> <<>>, closed |-> FALSE]
    /\ prod' = [pc |-> "loop", i |-> 1, err |-> FALSE]
    /\ cons' = [pc |-> "recv", err |-> FALSE]
    /\ envErr' = FALSE
    /\ reused' = <<>>
    /\ dlfil' = <<>>
    /\ taken' = <<>>

\* downloadRelease starts: a fresh channel for the suite's release files.
StartDownloadRelease ==
    /\ lingering' = lingering + Cardinality({f \in DOMAIN dl : dl[f] = "sent"})
    /\ dl' = Idle(NumReleases)
    /\ results' = [q |-> <<>>, closed |-> FALSE]
    /\ taken' = <<>>

-----------------------------------------------------------------------------
(* downloadRelease (lines 396-450). *)

\* The loop of lines 400-408 takes a permit and starts a download.
ReleaseDispatch ==
    /\ main.pc = "release"
    /\ sem > 0
    /\ sem' = sem - 1
    /\ dl' = [dl EXCEPT ![main.sent + 1] = "run"]
    /\ main' = [main EXCEPT !.sent = main.sent + 1,
                            !.pc = IF main.sent + 1 = NumReleases THEN "relrecv"
                                   ELSE "release"]
    /\ UNCHANGED <<ctxDone, lingering, results, prod, cons, envErr, reused, dlfil,
                   taken, fs>>
    /\ UNCHANGED <<cacheVars, auxVars>>

\* ... or sees ctx.Done() and returns ctx.Err().
ReleaseCancelled ==
    /\ main.pc = "release"
    /\ ctxDone
    /\ Fail
    /\ UNCHANGED <<ctxDone, sem, dl, lingering, results, prod, cons, envErr, reused,
                   dlfil, taken, fs>>
    /\ UNCHANGED <<cacheVars, auxVars>>

\* Lines 413-446: one result is received and the release file parsed.  parseErr
\* is a failure of Open, ExtractFileInfo or addFileInfoToList.
ReleaseRecv ==
    /\ main.pc = "relrecv"
    /\ results.q # <<>>
    /\ LET r == Head(results.q)
           n == main.recv + 1
       IN  /\ results' = [results EXCEPT !.q = Tail(results.q)]
           /\ \E parseErr \in BOOLEAN :
                IF r.err # "" \/ (r.status \notin 400..499 /\ r.status # 200)
                   \/ (r.status = 200 /\ parseErr)
                THEN /\ Fail
                     /\ taken' = Append(taken, r)
                     /\ UNCHANGED <<dl, lingering, prod, cons, envErr, reused, dlfil>>
                ELSE IF n < NumReleases
                THEN /\ main' = [main EXCEPT !.recv = n,
                                             !.found = main.found \/ r.status = 200]
                     /\ taken' = Append(taken, r)
                     /\ UNCHANGED <<dl, lingering, prod, cons, envErr, reused, dlfil>>
                ELSE IF ~(main.found \/ r.status = 200)
                THEN \* updateSuite, line 244: found no Release/InRelease
                     /\ Fail
                     /\ taken' = Append(taken, r)
                     /\ UNCHANGED <<dl, lingering, prod, cons, envErr, reused, dlfil>>
                ELSE \* downloadIndices
                     /\ main' = [main EXCEPT !.pc = "indices", !.recv = n, !.found = TRUE]
                     /\ StartDownloadFiles
    /\ UNCHANGED <<ctxDone, sem, fs>>
    /\ UNCHANGED <<cacheVars, auxVars>>

-----------------------------------------------------------------------------
(* Mirror.download (lines 286-372), one goroutine per dispatched file.     *)

\* The body up to the deferred function: the requests, the retries and the store.
\* The deferred function then delivers the result ...
DownloadFinish ==
    /\ \E f \in DOMAIN dl :
        /\ dl[f] = "run"
        /\ \E o \in Outcomes(IF InDownloadFiles THEN JointDone ELSE ctxDone) :
             results' = [results EXCEPT
                           !.q = Append(results.q,
                                        [f |-> f, status |-> o.status, err |-> o.err])]
        /\ dl' = [dl EXCEPT ![f] = "sent"]
    /\ UNCHANGED <<main, ctxDone, sem, lingering, prod, cons, envErr, reused, dlfil,
                   taken, fs>>
    /\ UNCHANGED <<cacheVars, auxVars>>

PermitReleaseLost ==
    /\ \E f \in DOMAIN dl :
        /\ dl[f] = "sent"
        /\ dl' = [dl EXCEPT ![f] = "done"]
    /\ UNCHANGED <<main, ctxDone, sem, lingering, results, prod, cons, envErr, reused,
                   dlfil, taken, fs>>
    /\ UNCHANGED <<cacheVars, auxVars>>

\* ... and gives the permit back (line 294).
PermitRelease ==
    /\ \E f \in DOMAIN dl :
        /\ dl[f] = "sent"
        /\ dl' = [dl EXCEPT ![f] = "done"]
    /\ sem' = sem + 1
    /\ UNCHANGED <<main, ctxDone, lingering, results, prod, cons, envErr, reused,
                   dlfil, taken, fs>>
    /\ UNCHANGED <<cacheVars, auxVars>>

LingeringRelease ==
    /\ lingering > 0
    /\ lingering' = lingering - 1
    /\ sem' = sem + 1
    /\ UNCHANGED <<main, ctxDone, dl, results, prod, cons, envErr, reused, dlfil,
                   taken, fs>>
    /\ UNCHANGED <<cacheVars, auxVars>>

-----------------------------------------------------------------------------
(* reuseOrDownload (lines 510-571), the producer of downloadFiles.         *)

\* (a loop that does not move on to the next file)
AdvanceSame(err) ==
    prod' = [pc |-> IF err \/ prod.i = NumFiles THEN "wait" ELSE "loop",
             i |-> prod.i,
             err |-> err]

Advance(err) ==
    prod' = [pc |-> IF err \/ prod.i = NumFiles THEN "wait" ELSE "loop",
             i |-> IF err THEN prod.i ELSE prod.i + 1,
             err |-> err]

\* Lines 541-557: current.Lookup hits and the file is linked from the previous
\* snapshot; storeLink may fail.
ProducerReuse ==
    /\ InDownloadFiles
    /\ prod.pc = "loop"
    /\ fs.current
    /\ \E linkErr \in BOOLEAN :
        /\ Advance(linkErr)
        /\ reused' = IF linkErr THEN reused ELSE Append(reused, prod.i)
    /\ UNCHANGED <<main, ctxDone, sem, dl, lingering, results, cons, envErr, dlfil,
                   taken, fs>>
    /\ UNCHANGED <<cacheVars, auxVars>>

\* Lines 559-568: the select takes a permit and the download is started ...
ProducerDispatch ==
    /\ InDownloadFiles
    /\ prod.pc = "loop"
    /\ sem > 0
    /\ sem' = sem - 1
    /\ dl' = [dl EXCEPT ![prod.i] = "run"]
    /\ Advance(FALSE)
    /\ UNCHANGED <<main, ctxDone, lingering, results, cons, envErr, reused, dlfil,
                   taken, fs>>
    /\ UNCHANGED <<cacheVars, auxVars>>

\* ... or the select takes ctx.Done().
ProducerCancelled ==
    /\ InDownloadFiles
    /\ prod.pc = "loop"
    /\ JointDone
    /\ Advance(TRUE)
    /\ UNCHANGED <<main, ctxDone, sem, dl, lingering, results, cons, envErr, reused,
                   dlfil, taken>>
    /\ UNCHANGED fs
    /\ UNCHANGED <<cacheVars, auxVars>>

\* (a close that does not wait for the downloads)
ProducerCloseEarly ==
    /\ InDownloadFiles
    /\ prod.pc = "wait"
    /\ results' = [results EXCEPT !.closed = TRUE]
    /\ prod' = [prod EXCEPT !.pc = "done"]
    /\ envErr' = (envErr \/ prod.err)
    /\ UNCHANGED <<main, ctxDone, sem, dl, lingering, cons, reused, dlfil, taken, fs>>
    /\ UNCHANGED <<cacheVars, auxVars>>

\* The deferred function of lines 518-522: env.Wait() returns once every download
\* goroutine has returned, the channel is closed, and an error of the producer
\* cancels the Environment of downloadFiles.
ProducerClose ==
    /\ InDownloadFiles
    /\ prod.pc = "wait"
    /\ \A f \in DOMAIN dl : dl[f] \in {"idle", "done"}
    /\ results' = [results EXCEPT !.closed = TRUE]
    /\ prod' = [prod EXCEPT !.pc = "done"]
    /\ envErr' = (envErr \/ prod.err)
    /\ UNCHANGED <<main, ctxDone, sem, dl, lingering, cons, reused, dlfil, taken, fs>>
    /\ UNCHANGED <<cacheVars, auxVars>>

-----------------------------------------------------------------------------
(* recvResult (lines 573-597), the consumer of downloadFiles.              *)

ConsumerRecv ==
    /\ InDownloadFiles
    /\ cons.pc = "recv"
    /\ results.q # <<>>
    /\ LET r == Head(results.q)
       IN  /\ results' = [results EXCEPT !.q = Tail(results.q)]
           /\ taken' = Append(taken, r)
           /\ IF r.err # ""
              THEN /\ cons' = [pc |-> "done", err |-> TRUE]
                   /\ envErr' = TRUE
                   /\ UNCHANGED dlfil
              ELSE IF AllowMissing /\ r.status = 404
              THEN UNCHANGED <<cons, envErr, dlfil>>
              ELSE IF r.status # 200
              THEN /\ cons' = [pc |-> "done", err |-> TRUE]
                   /\ envErr' = TRUE
                   /\ UNCHANGED dlfil
              ELSE /\ dlfil' = Append(dlfil, r.f)
                   /\ UNCHANGED <<cons, envErr>>
    /\ UNCHANGED <<main, ctxDone, sem, dl, lingering, prod, reused, fs>>
    /\ UNCHANGED <<cacheVars, auxVars>>

\* The range loop ends when the channel is closed and drained.
ConsumerEnd ==
    /\ InDownloadFiles
    /\ cons.pc = "recv"
    /\ results.q = <<>>
    /\ results.closed
    /\ cons' = [cons EXCEPT !.pc = "done"]
    /\ UNCHANGED <<main, ctxDone, sem, dl, lingering, results, prod, envErr, reused,
                   dlfil, taken, fs>>
    /\ UNCHANGED <<cacheVars, auxVars>>

-----------------------------------------------------------------------------
(* downloadFiles returns (env.Wait, lines 494-507), and the rest of Update. *)

DownloadFilesReturn ==
    /\ InDownloadFiles
    /\ prod.pc = "done"
    /\ cons.pc = "done"
    /\ IF envErr THEN Fail
       ELSE main' = [main EXCEPT !.pc = IF main.pc = "indices" THEN "extract" ELSE "save"]
    /\ UNCHANGED <<ctxDone, sem, dl, lingering, results, prod, cons, envErr, reused,
                   dlfil, taken, fs>>
    /\ UNCHANGED <<cacheVars, auxVars>>

\* extractItems (lines 124-155), then the next suite, or downloadItems.
ExtractItems ==
    /\ main.pc = "extract"
    /\ \E extractErr \in BOOLEAN :
        IF extractErr
        THEN /\ Fail
             /\ UNCHANGED <<dl, lingering, results, prod, cons, envErr, reused, dlfil,
                            taken>>
        ELSE IF main.suite < NumSuites
        THEN /\ main' = [pc |-> "release", suite |-> main.suite + 1, sent |-> 0,
                         recv |-> 0, found |-> FALSE]
             /\ StartDownloadRelease
             /\ UNCHANGED <<prod, cons, envErr, reused, dlfil>>
        ELSE /\ main' = [main EXCEPT !.pc = "items"]
             /\ StartDownloadFiles
    /\ UNCHANGED <<ctxDone, sem, fs>>
    /\ UNCHANGED <<cacheVars, auxVars>>

SaveIgnored ==
    /\ main.pc = "save"
    /\ main' = [main EXCEPT !.pc = "symlink"]
    /\ UNCHANGED <<ctxDone, sem, dl, lingering, results, prod, cons, envErr, reused,
                   dlfil, taken, fs>>
    /\ UNCHANGED <<cacheVars, auxVars>>

\* m.storage.Save() (line 204).
Save ==
    /\ main.pc = "save"
    /\ \E saveErr \in BOOLEAN :
        IF saveErr THEN Fail /\ UNCHANGED fs
        ELSE /\ main' = [main EXCEPT !.pc = "symlink"]
             /\ fs' = [fs EXCEPT !.saved = TRUE]
    /\ UNCHANGED <<ctxDone, sem, dl, lingering, results, prod, cons, envErr, reused,
                   dlfil, taken>>
    /\ UNCHANGED <<cacheVars, auxVars>>

-----------------------------------------------------------------------------
(* replaceLink (lines 157-177), one action per system call.                *)

ReplaceLinkStep(pc, next, effect) ==
    /\ main.pc = pc
    /\ \E sysErr \in BOOLEAN :
        IF sysErr THEN Fail /\ UNCHANGED fs
        ELSE /\ main' = [main EXCEPT !.pc = next]
             /\ fs' = effect
    /\ UNCHANGED <<ctxDone, sem, dl, lingering, results, prod, cons, envErr, reused,
                   dlfil, taken>>
    /\ UNCHANGED <<cacheVars, auxVars>>

Symlink == ReplaceLinkStep("symlink", "sync1", [fs EXCEPT !.tmp = TRUE])

DirSync1 == ReplaceLinkStep("sync1", "rename", [fs EXCEPT !.syncs = fs.syncs + 1])

Rename == ReplaceLinkStep("rename", "sync2", [fs EXCEPT !.link = "new", !.tmp = FALSE])

DirSync2 == ReplaceLinkStep("sync2", "ok", [fs EXCEPT !.syncs = fs.syncs + 1])

\* The caller cancels the context of Update.
CancelCtx ==
    /\ ~ctxDone
    /\ main.pc \notin {"ok", "err"}
    /\ ctxDone' = TRUE
    /\ UNCHANGED <<main, sem, dl, lingering, results, prod, cons, envErr, reused,
                   dlfil, taken, fs>>
    /\ UNCHANGED <<cacheVars, auxVars>>

-----------------------------------------------------------------------------
(* NewMirror (lines 44-108): the published symlink exists or not, and with *)
(* it the previous snapshot, current; the semaphore holds MaxConns permits.*)

InitMirror ==
    /\ main = [pc |-> "release", suite |-> 1, sent |-> 0, recv |-> 0, found |-> FALSE]
    /\ ctxDone = FALSE
    /\ sem = MaxConns
    /\ dl = Idle(NumReleases)
    /\ lingering = 0
    /\ results = [q |-> <<>>, closed |-> FALSE]
    /\ prod = [pc |-> "idle", i |-> 1, err |-> FALSE]
    /\ cons = [pc |-> "idle", err |-> FALSE]
    /\ envErr = FALSE
    /\ reused = <<>>
    /\ dlfil = <<>>
    /\ taken = <<>>
    /\ \E cur \in BOOLEAN :
        fs = [link |-> IF cur THEN "old" ELSE "none", current |-> cur, tmp |-> FALSE,
              syncs |-> 0, saved |-> FALSE]

NextMirror ==
    \/ ReleaseDispatch \/ ReleaseCancelled \/ ReleaseRecv
    \/ DownloadFinish \/ PermitRelease \/ LingeringRelease
    \/ ProducerReuse \/ ProducerDispatch \/ ProducerCancelled \/ ProducerClose
    \/ ConsumerRecv \/ ConsumerEnd
    \/ DownloadFilesReturn \/ ExtractItems \/ Save
    \/ Symlink \/ DirSync1 \/ Rename \/ DirSync2
    \/ CancelCtx

-----------------------------------------------------------------------------
(* Properties of Mirror.Update.                                            *)

\* What <dir>/<id> designated when Update started.
LinkBefore == IF fs.current THEN "old" ELSE "none"

Statuses(rs) == {rs[i].status : i \in DOMAIN rs}

Running == {f \in DOMAIN dl : dl[f] = "run"}

\* C5: whenever Update returns an error, the published symlink is unchanged.
\* The last step of replaceLink, the second DirSync, fails after the rename.
NoPartialCommit == main.pc = "err" => fs.link = LinkBefore

\* C6 as stated: the rename that flips the symlink comes after both directory
\* fsyncs.
FlipAfterBothSyncs == fs.link = "new" => fs.syncs = 2

\* C6: the rename that flips the published symlink happens after the writes of all
\* suites have completed, after Save has returned successfully and after the first
\* directory fsync (the second one follows the rename); until the rename the
\* previous snapshot stays published.
PublishOrdering ==
    /\ [](main.pc \in {"release", "relrecv", "indices", "extract", "items", "save",
                       "symlink", "sync1", "rename"} => fs.link = LinkBefore)
    /\ [][fs'.link # fs.link =>
            /\ main.pc = "rename" /\ fs'.link = "new"
            /\ main.suite = NumSuites /\ Running = {}
            /\ fs.saved /\ fs.tmp /\ fs.syncs = 1]_vars

PublishWitness == fs.link = "new" /\ fs.syncs = 1 /\ main.pc = "sync2"

\* C7 as stated: downloadIndices succeeds only if no index ended with a 4xx status.
IndicesRequire200 == main.pc = "extract" => Statuses(taken) \cap (400..499) = {}

\* C7: downloadIndices runs with allowMissing = true: an index that ends with 404
\* is skipped and left out of the downloaded list, and downloadIndices succeeds;
\* any other status than 200 or 404, and any download error, makes it fail.
IndicesAllowMissing ==
    /\ main.pc \in {"indices", "extract"} =>
         /\ \A i \in DOMAIN taken :
              (taken[i].err # "" \/ taken[i].status \notin {200, 404}) =>
                 (i = Len(taken) /\ cons = [pc |-> "done", err |-> TRUE] /\ envErr
                  /\ main.pc = "indices")
         /\ dlfil = [i \in 1..Len(dlfil) |->
                       SelectSeq(taken, LAMBDA r : r.err = "" /\ r.status = 200)[i].f]
    /\ (main.pc = "indices" /\ \A i \in DOMAIN taken :
                                  taken[i].err = "" /\ taken[i].status \in {200, 404})
         => ~cons.err

IndicesWitness == main.pc = "extract" /\ 404 \in Statuses(taken)

\* C8 as stated: a 404 for a listed item does not make downloadItems fail.
ItemsAllowMissing == (main.pc = "items" /\ 404 \in Statuses(taken)) => ~cons.err

\* C8: downloadItems runs with allowMissing = false: a 404 for a listed item makes
\* recvResult return an error, the item is not in the downloaded list, and
\* downloadItems and Update fail without Save and replaceLink being reached.
ItemsRequire200 ==
    /\ (main.pc = "items" /\ 404 \in Statuses(taken)) =>
         /\ cons = [pc |-> "done", err |-> TRUE] /\ envErr
         /\ taken[Len(taken)].status = 404
         /\ taken[Len(taken)].f \notin Range(dlfil)
    /\ main.pc \in {"save", "symlink", "sync1", "rename", "sync2", "ok"} =>
         /\ Statuses(taken) = IF taken = <<>> THEN {} ELSE {200}
         /\ ~envErr

ItemsWitness == main.pc = "items" /\ 404 \in Statuses(taken) /\ prod.pc = "done"

\* C9 as stated: when downloadFiles returns, all maxConns permits are free again.
AllPermitsFreeOnReturn == main.pc \in {"extract", "save"} => sem = MaxConns

\* C9: at most maxConns downloads hold a permit, free plus held permits is always
\* maxConns, a permit is released only by a download that has delivered its
\* result, once, and when downloadFiles returns every download it dispatched has
\* released its permit; only a Release download that has delivered its result
\* and not yet run its release can still hold one.
PermitConservation ==
    /\ sem \in 0..MaxConns
    /\ lingering \in 0..MaxConns
    /\ Cardinality(Holding) + lingering <= MaxConns
    /\ sem + Cardinality(Holding) + lingering = MaxConns
    /\ Cardinality({f \in DOMAIN dl : dl[f] \in {"sent", "done"}})
         = Len(results.q) + Len(taken)
    /\ ((InDownloadFiles /\ prod.pc = "done") \/ main.pc \in {"extract", "save"}) =>
         /\ Holding = {}
         /\ sem + lingering = MaxConns

PermitWitness ==
    /\ main.pc = "save"
    /\ \E f \in DOMAIN dl : dl[f] = "done"
    /\ sem = MaxConns

\* A step of the goroutines of downloadFiles: the downloads, the producer, the
\* consumer, and the return of env.Wait.
PipelineStep ==
    \/ DownloadFinish \/ PermitRelease \/ LingeringRelease
    \/ ProducerReuse \/ ProducerDispatch \/ ProducerCancelled \/ ProducerClose
    \/ ConsumerRecv \/ ConsumerEnd
    \/ DownloadFilesReturn

\* The same call of downloadFiles before and after the step.
SameCall == InDownloadFiles /\ main' = main

\* C22: in downloadFiles some goroutine can always take a step until it has
\* returned; the channel is closed once, by the producer, when every download it
\* dispatched has delivered its result and returned, and nothing is sent
\* afterwards; the channel has room for every result, received or not; and
\* downloadFiles returns when the producer, the consumer and the downloads are
\* done.
NoDeadlock ==
    /\ [](InDownloadFiles =>
            /\ ENABLED PipelineStep
            /\ Len(results.q) + Len(taken) <= NumFiles
            /\ Len(results.q) <= NumFiles
            /\ results.closed => (Running = {} /\ prod.pc = "done"))
    /\ [][SameCall =>
            /\ (results'.closed /\ ~results.closed) =>
                  (prod.pc = "wait" /\ \A f \in DOMAIN dl : dl[f] \in {"idle", "done"})
            /\ results.closed => (results'.closed /\ Len(results'.q) <= Len(results.q))]_vars
    /\ [][(InDownloadFiles /\ main' # main) =>
            /\ prod.pc = "done" /\ cons.pc = "done"
            /\ results.closed
            /\ \A f \in DOMAIN dl : dl[f] \in {"idle", "done"}]_vars

\* The consumer has returned with an error, and the downloads that were running
\* have still delivered their results, unreceived, before the close.
NoDeadlockWitness ==
    /\ main.pc = "items"
    /\ cons = [pc |-> "done", err |-> TRUE]
    /\ prod.pc = "done"
    /\ results.closed
    /\ Len(results.q) = 2
    /\ Len(taken) = 1

\* C23: once the joint context is cancelled the producer takes no further permit,
\* starts no further download and links no further file: its next step is the
\* return of the cancellation error.
NoWorkAfterCancel ==
    [][(SameCall /\ JointDone /\ prod.pc = "loop" /\ prod' # prod) =>
          /\ prod'.err /\ prod'.pc = "wait"
          /\ sem' = sem
          /\ dl' = dl
          /\ reused' = reused]_vars

Dispatched == {f \in DOMAIN dl : dl[f] # "idle"}

Delivered == [i \in 1..(Len(taken) + Len(results.q)) |->
                IF i <= Len(taken) THEN taken[i].f ELSE results.q[i - Len(taken)].f]

Distinct(q) == \A i, j \in DOMAIN q : i # j => q[i] # q[j]

\* C25: in one downloadFiles call every file of the list the producer has passed
\* is either linked from the previous snapshot, which exists, with no permit
\* taken and no download, or dispatched as one download under a permit, never
\* both and never twice; each download delivers one result; and on success the
\* list returned is the reused files followed by those downloaded with status
\* 200, every file of the input being in it or skipped as missing.
ReuseOrDownloadOnce ==
    /\ [](InDownloadFiles =>
            /\ Distinct(reused) /\ Distinct(Delivered) /\ Distinct(dlfil)
            /\ Range(reused) \cap Dispatched = {}
            /\ Range(reused) \cup Dispatched =
                 1..(IF prod.pc = "loop" \/ prod.err THEN prod.i - 1 ELSE NumFiles)
            /\ reused # <<>> => fs.current
            /\ Range(Delivered) \subseteq Dispatched
            /\ Range(dlfil) =
                 {taken[i].f : i \in {j \in DOMAIN taken :
                                        taken[j].err = "" /\ taken[j].status = 200}})
    /\ [][SameCall =>
            /\ reused' # reused =>
                  (sem' = sem /\ dl' = dl /\ results' = results
                   /\ reused' = Append(reused, prod.i))
            /\ (\E f \in DOMAIN dl : dl[f] = "idle" /\ dl'[f] # "idle") =>
                  (sem > 0 /\ sem' = sem - 1 /\ reused' = reused
                   /\ dl' = [dl EXCEPT ![prod.i] = "run"])]_vars
    /\ [](main.pc \in {"extract", "save"} =>
            /\ Range(reused) \cup Range(Delivered) = 1..NumFiles
            /\ Range(reused) \cup Range(dlfil) =
                 (1..NumFiles) \ {taken[i].f : i \in {j \in DOMAIN taken :
                                                        taken[j].status = 404}})

\* downloadFiles has returned a list of one reused and two downloaded files.
ReuseWitness ==
    /\ main.pc = "save"
    /\ Len(reused) = 1
    /\ Len(dlfil) = 2
    /\ reused[1] = 2

-----------------------------------------------------------------------------
(* Mirror.download (lines 286-372), one goroutine statement by statement.  *)

httpRetries == 5

\* 1 << n
Shl(n) == 2 ^ n

\* What client.Do ends with: an error, or a response with its status.  With the
\* context cancelled it is an error.
Responses == {200, 404, 503}

Response(n) == [err |-> "", status |-> n]

TransportError == [err |-> "transport", status |-> 0]

NoRequestYet == [err |-> "", status |-> 0]

\* (a download that retries without a limit)
CanRetryAlways == TRUE

\* Lines 332 and 348: retries < httpRetries.
CanRetry == retries < httpRetries

\* Lines 297-303: the path, and with by-hash and a FileInfo its three by-hash
\* paths.
Targets(a) ==
    IF a.byhash /\ a.fi THEN <<"path", "sha256", "sha1", "md5">> ELSE <<"path">>

InitDownload ==
    /\ dpc = "retry"
    /\ retries = 0
    /\ dargs \in [byhash : BOOLEAN, fi : BOOLEAN]
    /\ targets = Targets(dargs)
    /\ asked = <<>>
    /\ stored = "none"
    /\ dctx = FALSE
    /\ dres = [status |-> 0, err |-> "", fi |-> FALSE]
    /\ sent = 0
    /\ released = 0
    /\ backoff = 0
    /\ got = NoRequestYet
    /\ reqs = 0

\* Lines 305-320: the select on ctx.Done(), and whether to sleep.
RetryLabel ==
    /\ dpc = "retry"
    /\ IF dctx
       THEN /\ dres' = [dres EXCEPT !.err = "ctx"]
            /\ dpc' = "deliver"
       ELSE /\ dpc' = IF retries > 0 THEN "sleep" ELSE "request"
            /\ UNCHANGED dres
    /\ UNCHANGED <<retries, targets, dctx, sent, released, backoff, got, reqs>>
    /\ UNCHANGED <<dargs, asked, stored>>
    /\ UNCHANGED <<cacheVars, mirrorVars, lockVars, storeVars, pathVars, releaseVars>>

\* Line 319: time.Sleep returns when the time is over, and no sooner.
BackoffSleep ==
    /\ dpc = "sleep"
    /\ backoff' = Shl(retries - 1)
    /\ dpc' = "request"
    /\ UNCHANGED <<retries, targets, dctx, dres, sent, released, got, reqs>>
    /\ UNCHANGED <<dargs, asked, stored>>
    /\ UNCHANGED <<cacheVars, mirrorVars, lockVars, storeVars, pathVars, releaseVars>>

\* Lines 322-354: client.Do and what follows from its result.
Request ==
    /\ dpc = "request"
    /\ reqs' = reqs + 1
    /\ \E o \in {TransportError} \cup (IF dctx THEN {} ELSE {Response(n) : n \in Responses}) :
        /\ got' = o
        /\ IF o = TransportError
           THEN IF CanRetry
                THEN /\ retries' = retries + 1
                     /\ dpc' = "retry"
                     /\ UNCHANGED dres
                ELSE /\ dres' = [dres EXCEPT !.err = "transport"]
                     /\ dpc' = "deliver"
                     /\ UNCHANGED retries
           ELSE /\ dres' = [dres EXCEPT !.status = o.status]
                /\ IF o.status >= 500 /\ CanRetry
                   THEN /\ retries' = retries + 1
                        /\ dpc' = "retry"
                   ELSE /\ dpc' = IF o.status # 200 THEN "deliver" ELSE "store"
                        /\ UNCHANGED retries
    /\ UNCHANGED <<targets, dctx, sent, released, backoff>>
    /\ asked' = Append(asked, targets[1])
    /\ UNCHANGED <<dargs, stored>>
    /\ UNCHANGED <<cacheVars, mirrorVars, lockVars, storeVars, pathVars, releaseVars>>

\* (a fallback after any error of m.store)
NextTargetAnyError(err) == err # "" /\ Len(targets) > 1

\* Line 358: err == ErrInvalidData && len(targets) > 1.
NextTarget(err) == err = "ErrInvalidData" /\ Len(targets) > 1

\* Lines 356-371: m.store, and the by-hash targets after ErrInvalidData.
StoreBody ==
    /\ dpc = "store"
    /\ \E err \in {"", "ErrInvalidData", "io"} :
        /\ stored' = err
        /\ IF NextTarget(err)
           THEN /\ targets' = Tail(targets)
                /\ dpc' = "retry"
                /\ UNCHANGED dres
           ELSE /\ dres' = IF err = "" THEN [dres EXCEPT !.fi = TRUE]
                          ELSE [dres EXCEPT !.err = err]
                /\ dpc' = "deliver"
                /\ UNCHANGED targets
    /\ UNCHANGED <<retries, dctx, sent, released, backoff, got, reqs>>
    /\ UNCHANGED <<dargs, asked>>
    /\ UNCHANGED <<cacheVars, mirrorVars, lockVars, storeVars, pathVars, releaseVars>>

\* Line 293: ch <- r.  The channel has room for every file of the list.
Deliver ==
    /\ dpc = "deliver"
    /\ sent' = sent + 1
    /\ dpc' = "release"
    /\ UNCHANGED <<retries, targets, dctx, dres, released, backoff, got, reqs>>
    /\ UNCHANGED <<dargs, asked, stored>>
    /\ UNCHANGED <<cacheVars, mirrorVars, lockVars, storeVars, pathVars, releaseVars>>

\* Line 294: m.semaphore <- struct{}{}.
GiveBack ==
    /\ dpc = "release"
    /\ released' = released + 1
    /\ dpc' = "done"
    /\ UNCHANGED <<retries, targets, dctx, dres, sent, backoff, got, reqs>>
    /\ UNCHANGED <<dargs, asked, stored>>
    /\ UNCHANGED <<cacheVars, mirrorVars, lockVars, storeVars, pathVars, releaseVars>>

\* The context is cancelled: by the caller of Update, or by a failure elsewhere.
CancelDownload ==
    /\ ~dctx
    /\ dpc # "done"
    /\ dctx' = TRUE
    /\ UNCHANGED <<dpc, retries, targets, dres, sent, released, backoff, got, reqs>>
    /\ UNCHANGED <<dargs, asked, stored>>
    /\ UNCHANGED <<cacheVars, mirrorVars, lockVars, storeVars, pathVars, releaseVars>>

DownloadSteps == RetryLabel \/ BackoffSleep \/ Request \/ StoreBody \/ Deliver \/ GiveBack

NextDownload == DownloadSteps \/ CancelDownload

\* No download goroutine is looked at.
DownloadIdle ==
    /\ dpc = "done"
    /\ retries = 0
    /\ targets = <<"path">>
    /\ dargs = [byhash |-> FALSE, fi |-> FALSE]
    /\ asked = <<>>
    /\ stored = "none"
    /\ dctx = FALSE
    /\ dres = [status |-> 0, err |-> "", fi |-> FALSE]
    /\ sent = 0
    /\ released = 0
    /\ backoff = 0
    /\ got = NoRequestYet
    /\ reqs = 0

-----------------------------------------------------------------------------
(* Properties of Mirror.download, checked under SpecDownload.              *)

\* C17: once the context is cancelled, a download waiting in its backoff ends with
\* the cancellation error without waiting out the sleep and without another
\* request.
CancelInterruptsBackoff ==
    [][(dctx /\ dpc = "sleep") =>
         (dpc' \in {"sleep", "deliver"} /\ reqs' = reqs
          /\ (dpc' = "deliver" => dres'.err = "ctx"))]_vars

TargetIndex(t) ==
    CASE t = "path" -> 1 [] t = "sha256" -> 2 [] t = "sha1" -> 3 [] OTHER -> 4

\* C24: the targets are requested in the order path, sha256Path, sha1Path,
\* md5Path, none skipped; the download moves to the next target only when m.store
\* of a 200 body returns ErrInvalidData and a target remains, and retries stays
\* as it is in that move; ErrInvalidData on the last target, and any other
\* error of m.store, is the error of the result; and without by-hash or without
\* a FileInfo only the path is requested.
ByHashFallback ==
    /\ [](/\ \A i \in DOMAIN asked :
                TargetIndex(asked[i]) =
                    IF i = 1 THEN 1
                    ELSE TargetIndex(asked[i - 1])
                           + (IF asked[i] = asked[i - 1] THEN 0 ELSE 1)
          /\ ~(dargs.byhash /\ dargs.fi) => \A i \in DOMAIN asked : asked[i] = "path"
          /\ targets = SubSeq(Targets(dargs), Len(Targets(dargs)) - Len(targets) + 1,
                              Len(Targets(dargs)))
          /\ targets # <<>>
          /\ stored = "io" => (dres.err = "io" /\ ~dres.fi /\ dpc \notin {"retry", "request"})
          /\ dres.fi => (stored = "" /\ dres.err = "" /\ dres.status = 200))
    /\ [][targets' # targets =>
            /\ targets' = Tail(targets)
            /\ dpc = "store" /\ got = Response(200)
            /\ stored' = "ErrInvalidData"
            /\ retries' = retries
            /\ dpc' = "retry"]_vars
    /\ [][(dpc = "store" /\ dpc' # "store") =>
            /\ (stored' = "ErrInvalidData" /\ Len(targets) > 1) => targets' # targets
            /\ (stored' = "ErrInvalidData" /\ Len(targets) = 1) =>
                  (dpc' = "deliver" /\ dres'.err = "ErrInvalidData" /\ ~dres'.fi)
            /\ stored' = "io" => (dpc' = "deliver" /\ dres'.err = "io" /\ ~dres'.fi)
            /\ stored' = "" => (dpc' = "deliver" /\ dres'.err = "" /\ dres'.fi)]_vars

\* The four targets were requested in turn, after one retry, and the last one
\* was invalid too.
ByHashWitness ==
    /\ dpc = "done"
    /\ asked = <<"path", "path", "sha256", "sha1", "md5">>
    /\ retries = 1
    /\ dres.err = "ErrInvalidData"

-----------------------------------------------------------------------------
(* cacher.Storage under concurrent calls.  The entries have size 1 and the *)
(* capacity is 0: what matters here is who reads and writes cache, lru and *)
(* lclock, and when.                                                       *)

NumThreads == 2
MaxTicks == 3

Threads == 1..NumThreads
LockPaths == {"a", "b"}
Calls == [kind : {"Insert", "Lookup", "Delete"}, path : LockPaths]
           \cup {[kind |-> "ListAll", path |-> ""], [kind |-> "Load", path |-> ""]}

UnderLock == {"cs", "push", "put", "del"}

InitLock ==
    /\ mu = 0
    /\ tpc = [t \in Threads |-> "idle"]
    /\ top = [t \in Threads |-> [kind |-> "none", path |-> ""]]
    /\ tret = [t \in Threads |-> [res |-> "", n |-> 0]]
    /\ kcache = {}
    /\ klen = 0
    /\ katime = EmptyMap
    /\ kclock = 0
    /\ kbase = [len |-> 0, had |-> FALSE]

\* A goroutine calls Insert, Lookup, Delete or ListAll and arrives at cm.mu.Lock()
\* (Insert after its path checks and the writing of the temporary file).
Call(t) ==
    /\ tpc[t] = "idle"
    /\ \E c \in Calls :
        /\ top' = [top EXCEPT ![t] = c]
        /\ tpc' = [tpc EXCEPT ![t] = "wait"]
    /\ UNCHANGED <<mu, tret, kcache, klen, katime, kclock, kbase>>
    /\ UNCHANGED <<cacheVars, mirrorVars, downloadVars, storeVars, pathVars, releaseVars>>

\* (a Lock that does not wait)
LockNoWait(t) ==
    /\ tpc[t] = "wait"
    /\ mu' = t
    /\ tpc' = [tpc EXCEPT ![t] = "cs"]
    /\ kbase' = [len |-> klen, had |-> top[t].path \in kcache]
    /\ UNCHANGED <<top, tret, kcache, klen, katime, kclock>>
    /\ UNCHANGED <<cacheVars, mirrorVars, downloadVars, storeVars, pathVars, releaseVars>>

\* cm.mu.Lock() (lines 144, 244, 304, 331, 343).
Lock(t) ==
    /\ tpc[t] = "wait"
    /\ mu = 0
    /\ mu' = t
    /\ tpc' = [tpc EXCEPT ![t] = "cs"]
    /\ kbase' = [len |-> klen, had |-> top[t].path \in kcache]
    /\ UNCHANGED <<top, tret, kcache, klen, katime, kclock>>
    /\ UNCHANGED <<cacheVars, mirrorVars, downloadVars, storeVars, pathVars, releaseVars>>

\* The deferred cm.mu.Unlock() and the return.
Return(t, r) ==
    /\ mu' = 0
    /\ tpc' = [tpc EXCEPT ![t] = "idle"]
    /\ tret' = [tret EXCEPT ![t] = r]

\* Insert, lines 247-265: the existing entry leaves the heap and the map.
InsertRemove(t) ==
    /\ tpc[t] = "cs"
    /\ top[t].kind = "Insert"
    /\ LET p == top[t].path
       IN  IF p \in kcache
           THEN /\ klen' = klen - 1
                /\ katime' = Without(katime, p)
                /\ kcache' = kcache \ {p}
           ELSE UNCHANGED <<klen, katime, kcache>>
    /\ tpc' = [tpc EXCEPT ![t] = "push"]
    /\ UNCHANGED <<mu, top, tret, kclock, kbase>>
    /\ UNCHANGED <<cacheVars, mirrorVars, downloadVars, storeVars, pathVars, releaseVars>>

\* Insert, lines 272-278: the new entry takes lclock and is pushed.
InsertPush(t) ==
    /\ tpc[t] = "push"
    /\ kclock < MaxTicks
    /\ katime' = With(katime, top[t].path, kclock)
    /\ kclock' = kclock + 1
    /\ klen' = klen + 1
    /\ tpc' = [tpc EXCEPT ![t] = "put"]
    /\ UNCHANGED <<mu, top, tret, kcache, kbase>>
    /\ UNCHANGED <<cacheVars, mirrorVars, downloadVars, storeVars, pathVars, releaseVars>>

\* Insert, lines 279-283: the map gets the entry, maint has nothing to do.
InsertPut(t) ==
    /\ tpc[t] = "put"
    /\ kcache' = kcache \cup {top[t].path}
    /\ Return(t, [res |-> "ok", n |-> 0])
    /\ UNCHANGED <<top, klen, katime, kclock, kbase>>
    /\ UNCHANGED <<cacheVars, mirrorVars, downloadVars, storeVars, pathVars, releaseVars>>

\* Lookup, lines 307-326.
LookupBody(t) ==
    /\ tpc[t] = "cs"
    /\ top[t].kind = "Lookup"
    /\ LET p == top[t].path
       IN  IF p \notin kcache
           THEN /\ Return(t, [res |-> "ErrNotFound", n |-> 0])
                /\ UNCHANGED <<katime, kclock>>
           ELSE /\ kclock < MaxTicks
                /\ katime' = [katime EXCEPT ![p] = kclock]
                /\ kclock' = kclock + 1
                /\ Return(t, [res |-> "ok", n |-> 0])
    /\ UNCHANGED <<top, kcache, klen, kbase>>
    /\ UNCHANGED <<cacheVars, mirrorVars, downloadVars, storeVars, pathVars, releaseVars>>

\* Delete, lines 346-362: the entry leaves the heap ...
DeleteRemove(t) ==
    /\ tpc[t] = "cs"
    /\ top[t].kind = "Delete"
    /\ LET p == top[t].path
       IN  IF p \notin kcache
           THEN /\ Return(t, [res |-> "ok", n |-> 0])
                /\ UNCHANGED <<klen, katime>>
           ELSE /\ klen' = klen - 1
                /\ katime' = Without(katime, p)
                /\ tpc' = [tpc EXCEPT ![t] = "del"]
                /\ UNCHANGED <<mu, tret>>
    /\ UNCHANGED <<top, kcache, kclock, kbase>>
    /\ UNCHANGED <<cacheVars, mirrorVars, downloadVars, storeVars, pathVars, releaseVars>>

\* ... and the map (line 363).
DeleteFinish(t) ==
    /\ tpc[t] = "del"
    /\ kcache' = kcache \ {top[t].path}
    /\ Return(t, [res |-> "ok", n |-> 0])
    /\ UNCHANGED <<top, klen, katime, kclock, kbase>>
    /\ UNCHANGED <<cacheVars, mirrorVars, downloadVars, storeVars, pathVars, releaseVars>>

\* ListAll, lines 331-338: a slice of cm.Len() elements is filled and returned.
ListAllBody(t) ==
    /\ tpc[t] = "cs"
    /\ top[t].kind = "ListAll"
    /\ Return(t, [res |-> "ok", n |-> klen])
    /\ UNCHANGED <<top, kcache, klen, katime, kclock, kbase>>
    /\ UNCHANGED <<cacheVars, mirrorVars, downloadVars, storeVars, pathVars, releaseVars>>

\* Load, lines 144-190: the files in the directory are those of the entries
\* cached, so that the walk adds nothing.
LoadBody(t) ==
    /\ tpc[t] = "cs"
    /\ top[t].kind = "Load"
    /\ Return(t, [res |-> "ok", n |-> 0])
    /\ UNCHANGED <<top, kcache, klen, katime, kclock, kbase>>
    /\ UNCHANGED <<cacheVars, mirrorVars, downloadVars, storeVars, pathVars, releaseVars>>

\* Len, lines 78-80: len(cm.lru) is read, and cm.mu is not taken.
LenCall(t) ==
    /\ tpc[t] = "idle"
    /\ top' = [top EXCEPT ![t] = [kind |-> "Len", path |-> ""]]
    /\ tret' = [tret EXCEPT ![t] = [res |-> "ok", n |-> klen]]
    /\ UNCHANGED <<mu, tpc, kcache, klen, katime, kclock, kbase>>
    /\ UNCHANGED <<cacheVars, mirrorVars, downloadVars, storeVars, pathVars, releaseVars>>

NextLock ==
    \E t \in Threads :
        \/ Call(t) \/ Lock(t)
        \/ InsertRemove(t) \/ InsertPush(t) \/ InsertPut(t)
        \/ LookupBody(t)
        \/ DeleteRemove(t) \/ DeleteFinish(t)
        \/ ListAllBody(t)
        \/ LoadBody(t)
        \/ LenCall(t)

\* No goroutine calls the Storage.
LockIdle == InitLock

-----------------------------------------------------------------------------
(* Properties of the concurrent Storage, checked under SpecLock.           *)

\* The lengths len(lru) has in the serial orders of the calls under way: the one
\* before the call that holds the mutex, and the one after it.
SerialLens ==
    IF mu = 0 THEN {klen}
    ELSE {kbase.len,
          CASE top[mu].kind = "Insert" -> IF kbase.had THEN kbase.len ELSE kbase.len + 1
            [] top[mu].kind = "Delete" -> IF kbase.had THEN kbase.len - 1 ELSE kbase.len
            [] OTHER -> kbase.len}

LenReturns(t) == top'[t].kind = "Len" /\ (top'[t] # top[t] \/ tret'[t] # tret[t])

-----------------------------------------------------------------------------
(* mirror.Storage: Store, Lookup, Save, and NewStorage followed by Load.   *)
(* The FileInfos that reach Store are those of makeFileInfo and of the     *)
(* index files, which carry digests, or nil (mirror.go line 405), for      *)
(* which the Storage computes the FileInfo of the bytes it receives.       *)

NumStorers == 2

Storers == 1..NumStorers
StorePaths == {"a/b/c", "def"}
StoreIds == {"pre", "ubuntu"}
StoreData == [size : {1}, tag : {"x", "y"}]
NilFileInfo == [path |-> "", size |-> 0, sum |-> NoSum]
StoreInfos == {CopyWithFileInfo(d, p) : d \in StoreData, p \in StorePaths}

NoCall == [op |-> "none", fi |-> NilFileInfo, hit |-> FALSE]
NoStore == [path |-> "", fi |-> NilFileInfo, data |-> [size |-> 1, tag |-> "x"]]

\* The digests in the sidecar are hex strings.
Hex(sum) == [size |-> sum[1], hex |-> IF sum[2] = "x" THEN "78" ELSE "79"]

Unhex(h) == <<h.size, IF h.hex = "78" THEN "x" ELSE "y">>

\* The sidecar maps each path to {size, digests}.
Encode(m) == [p \in DOMAIN m |-> [size |-> m[p].size, digest |-> Hex(m[p].sum)]]

\* (a parser that drops the digests)
DecodeSizeOnly(j) ==
    [p \in DOMAIN j |-> MakeFileInfoNoChecksum(p, j[p].size)]

Decode(j) ==
    [p \in DOMAIN j |-> [path |-> p, size |-> j[p].size, sum |-> Unhex(j[p].digest)]]

\* Lookup(fi, false): the entry of fi's path, if it is Same as fi.
Hit(m, fi) == fi.path \in DOMAIN m /\ Same(m[fi.path], fi)

\* (a check that forgets the paths being written)
TakenCommitted(p) == p \in DOMAIN infoMap

\* Store's check: the path is committed, or another Store is writing it.
Taken(p) == p \in DOMAIN infoMap \/ p \in lockedPaths

InitStore ==
    /\ sid = "pre"
    /\ infoMap = EmptyMap
    /\ lockedPaths = {}
    /\ sidecar = [present |-> FALSE, json |-> EmptyMap]
    /\ spc = [t \in Storers |-> "idle"]
    /\ sarg = [t \in Storers |-> NoStore]
    /\ sret = [t \in Storers |-> ""]
    /\ wins = [p \in StorePaths |-> 0]
    /\ slast = NoCall

\* Store(path, fi, reader), first half: the path is refused if it is taken,
\* and reserved otherwise.
StoreBegin(t) ==
    /\ spc[t] = "idle"
    /\ \E p \in StorePaths, d \in StoreData, fi \in StoreInfos \cup {NilFileInfo} :
        /\ fi # NilFileInfo => fi.path = p
        /\ sarg' = [sarg EXCEPT ![t] = [path |-> p, fi |-> fi, data |-> d]]
        /\ IF Taken(p)
           THEN /\ sret' = [sret EXCEPT ![t] = "exists"]
                /\ slast' = [op |-> "Store", fi |-> fi, hit |-> FALSE]
                /\ UNCHANGED <<spc, lockedPaths>>
           ELSE /\ sret' = [sret EXCEPT ![t] = "pending"]
                /\ spc' = [spc EXCEPT ![t] = "writing"]
                /\ lockedPaths' = lockedPaths \cup {p}
                /\ UNCHANGED slast
    /\ UNCHANGED <<sid, infoMap, sidecar, wins>>
    /\ UNCHANGED <<cacheVars, mirrorVars, downloadVars, lockVars, pathVars, releaseVars>>

\* Store, second half: the bytes are written to a temporary file and compared
\* with fi; the file is renamed into place and the FileInfo committed.
StoreFinish(t) ==
    /\ spc[t] = "writing"
    /\ LET a == sarg[t]
           fi2 == CopyWithFileInfo(a.data, a.path)
           fi == IF a.fi = NilFileInfo THEN fi2 ELSE a.fi
       IN  IF HasChecksum(fi) /\ ~Same(fi, fi2)
           THEN /\ sret' = [sret EXCEPT ![t] = "ErrInvalidData"]
                /\ slast' = [op |-> "Store", fi |-> fi, hit |-> FALSE]
                /\ UNCHANGED <<infoMap, wins>>
           ELSE /\ sret' = [sret EXCEPT ![t] = "ok"]
                /\ infoMap' = With(infoMap, a.path, fi)
                /\ wins' = [wins EXCEPT ![a.path] = @ + 1]
                /\ slast' = [op |-> "Store", fi |-> fi, hit |-> TRUE]
    /\ lockedPaths' = lockedPaths \ {sarg[t].path}
    /\ spc' = [spc EXCEPT ![t] = "idle"]
    /\ UNCHANGED <<sid, sidecar, sarg>>
    /\ UNCHANGED <<cacheVars, mirrorVars, downloadVars, lockVars, pathVars, releaseVars>>

\* Lookup(fi, false).
StorageLookup ==
    /\ \E fi \in StoreInfos :
        slast' = [op |-> "Lookup", fi |-> fi, hit |-> Hit(infoMap, fi)]
    /\ UNCHANGED <<sid, infoMap, lockedPaths, sidecar, spc, sarg, sret, wins>>
    /\ UNCHANGED <<cacheVars, mirrorVars, downloadVars, lockVars, pathVars, releaseVars>>

\* Save: infoMap is serialized into the sidecar, atomically.
StorageSave ==
    /\ sidecar' = [present |-> TRUE, json |-> Encode(infoMap)]
    /\ slast' = [op |-> "Save", fi |-> NilFileInfo, hit |-> FALSE]
    /\ UNCHANGED <<sid, infoMap, lockedPaths, spc, sarg, sret, wins>>
    /\ UNCHANGED <<cacheVars, mirrorVars, downloadVars, lockVars, pathVars, releaseVars>>

\* Load: the sidecar, if there is one, becomes infoMap.
StorageLoad == IF sidecar.present THEN Decode(sidecar.json) ELSE EmptyMap

\* NewStorage(d, id) on the same directory, then Load (storage_test.go lines
\* 106-116 construct the second Storage under another id).
NewStorage ==
    /\ \A t \in Storers : spc[t] = "idle"
    /\ \E id \in StoreIds : sid' = id
    /\ infoMap' = StorageLoad
    /\ lockedPaths' = {}
    /\ wins' = [p \in StorePaths |-> IF p \in DOMAIN StorageLoad THEN 1 ELSE 0]
    /\ sret' = [t \in Storers |-> ""]
    /\ sarg' = [t \in Storers |-> NoStore]
    /\ slast' = [op |-> "NewStorage", fi |-> NilFileInfo, hit |-> FALSE]
    /\ UNCHANGED <<sidecar, spc>>
    /\ UNCHANGED <<cacheVars, mirrorVars, downloadVars, lockVars, pathVars, releaseVars>>

NextStore ==
    \/ \E t \in Storers : StoreBegin(t) \/ StoreFinish(t)
    \/ StorageLookup
    \/ StorageSave
    \/ NewStorage

\* No Storage of the mirror is in use.
StoreIdle == InitStore

-----------------------------------------------------------------------------
(* Properties of mirror.Storage, checked under SpecStore.                  *)

\* Goroutine t calls Store in this step.
StoreCalled(t) ==
    /\ spc[t] = "idle"
    /\ sarg'[t] # NoStore
    /\ sarg'[t] # sarg[t] \/ sret'[t] # sret[t]

\* Goroutine t's Store returns in this step because the path is taken.
StoreRefused(t) == StoreCalled(t) /\ spc'[t] = "idle" /\ sret'[t] = "exists"

\* C19: a Store of a path that is in infoMap or in lockedPaths fails and leaves
\* infoMap as it was, and of the Store calls on one path, concurrent or not, at
\* most one succeeds.
SecondStoreFails ==
    /\ [](\A p \in StorePaths : wins[p] <= 1)
    /\ [][\A t \in Storers :
            /\ (StoreCalled(t) /\ Taken(sarg'[t].path)) => StoreRefused(t)
            /\ StoreRefused(t) => infoMap' = infoMap]_vars

SecondStoreWitness ==
    \E t, u \in Storers :
        /\ t # u
        /\ sarg[t].path = sarg[u].path
        /\ sret[t] = "exists" /\ sret[u] = "ok"
        /\ infoMap[sarg[u].path] = sarg[u].fi
        /\ sarg[t].fi # NilFileInfo /\ sarg[t].fi # sarg[u].fi

StoreSucceeds(t) == spc[t] = "writing" /\ sret'[t] = "ok"

-----------------------------------------------------------------------------
(* Where Insert and Delete put and remove files.  A path is the list of    *)
(* its components between the separators, and whether it is rooted:        *)
(* "../x" is [abs |-> FALSE, comps |-> <<"..", "x">>], "a//b" has an empty *)
(* component, "" has none.                                                 *)

MaxComps == 2
MaxCalls == 2

Comps == {"", ".", "..", "x", "y"}
RawPaths ==
    [abs : BOOLEAN, comps : UNION {[1..n -> Comps] : n \in 0..MaxComps}]

\* Storage.dir: an absolute, clean path (NewStorage, line 67).
CacheDir == <<"var", "d">>

\* filepath.Clean: empty and "." components dropped, ".." taking back the
\* component before it (and dropped at the root), "." for an empty result.
RECURSIVE CleanFrom(_, _, _)
CleanFrom(abs, out, rest) ==
    IF rest = <<>> THEN out
    ELSE LET c == Head(rest)
             t == Tail(rest)
         IN  CASE c \in {"", "."} -> CleanFrom(abs, out, t)
               [] c = ".." ->
                    IF out # <<>> /\ out[Len(out)] # ".."
                    THEN CleanFrom(abs, SubSeq(out, 1, Len(out) - 1), t)
                    ELSE IF abs THEN CleanFrom(abs, out, t)
                    ELSE CleanFrom(abs, Append(out, ".."), t)
               [] OTHER -> CleanFrom(abs, Append(out, c), t)

FilepathClean(p) ==
    LET c == CleanFrom(p.abs, <<>>, p.comps)
    IN  [abs |-> p.abs, comps |-> IF c = <<>> /\ ~p.abs THEN <<".">> ELSE c]

FilepathIsAbs(p) == p.abs

Dot == [abs |-> FALSE, comps |-> <<".">>]

\* Insert, lines 198-205.
BadPath(p) == p # FilepathClean(p) \/ FilepathIsAbs(p) \/ p = Dot

\* p + fileSuffix: the suffix goes to the last component.
Suffixed(c) ==
    CASE c = "x" -> "x.cache"
      [] c = "y" -> "y.cache"
      [] c = ".." -> "...cache"
      [] c = "." -> "..cache"
      [] OTHER -> ".cache"

WithSuffix(comps) ==
    IF comps = <<>> THEN <<".cache">>
    ELSE [comps EXCEPT ![Len(comps)] = Suffixed(@)]

\* filepath.Join(cm.dir, p+fileSuffix), lines 230 and 350: the absolute path of
\* the cache file.
DestPath(p) == CleanFrom(TRUE, <<>>, CacheDir \o WithSuffix(p.comps))

\* The file is inside Storage.dir.
Inside(f) == Len(f) > Len(CacheDir) /\ SubSeq(f, 1, Len(CacheDir)) = CacheDir

InitPath ==
    /\ pfiles = {}
    /\ pcache = {}
    /\ pcalls = 0
    /\ plast = [op |-> "none", p |-> Dot, res |-> ""]

\* Insert(r, p, fi): the path checks, then the rename to destpath.
PathInsert ==
    /\ pcalls < MaxCalls
    /\ pcalls' = pcalls + 1
    /\ \E p \in RawPaths :
        IF BadPath(p)
        THEN /\ plast' = [op |-> "Insert", p |-> p, res |-> "ErrBadPath"]
             /\ UNCHANGED <<pfiles, pcache>>
        ELSE /\ plast' = [op |-> "Insert", p |-> p, res |-> "ok"]
             /\ pfiles' = pfiles \cup {DestPath(p)}
             /\ pcache' = pcache \cup {p}
    /\ UNCHANGED <<cacheVars, mirrorVars, downloadVars, lockVars, storeVars, releaseVars>>

\* Delete(p) of a cached path: os.Remove(filepath.Join(cm.dir, e.FilePath())).
PathDelete ==
    /\ pcalls < MaxCalls
    /\ pcalls' = pcalls + 1
    /\ \E p \in pcache :
        /\ plast' = [op |-> "Delete", p |-> p, res |-> "ok"]
        /\ pfiles' = pfiles \ {DestPath(p)}
        /\ pcache' = pcache \ {p}
    /\ UNCHANGED <<cacheVars, mirrorVars, downloadVars, lockVars, storeVars, releaseVars>>

NextPath == PathInsert \/ PathDelete

\* No Insert or Delete has been called.
PathIdle == InitPath

-----------------------------------------------------------------------------
(* Properties of the file paths, checked under SpecPath.                   *)

\* C27: every file Insert creates or replaces, for a path it accepts, is inside
\* the cache directory.
Containment == \A f \in pfiles : Inside(f)

-----------------------------------------------------------------------------
(* downloadRelease, lines 410-449: the results of the release files of a   *)
(* suite are received in the order the downloads end, and each is parsed   *)
(* and added to filMap.  One path p is looked at; a release lists it with  *)
(* the FileInfo of some bytes, or does not list it.                        *)

MaxReleases == 3

ReleaseIds == 1..MaxReleases
RelData == [size : {1, 2}, tag : {"x"}]
NotListed == [size |-> 0, tag |-> "x"]

\* Release.gpg is a signature: it lists no file and carries no by-hash field.
ReleaseFiles ==
    {rs \in [ReleaseIds -> [gpg : BOOLEAN, by : BOOLEAN, status : {200, 404},
                            lists : RelData \cup {NotListed}]] :
        /\ Cardinality({i \in ReleaseIds : rs[i].gpg}) <= 1
        /\ \A i \in ReleaseIds : rs[i].gpg => (~rs[i].by /\ rs[i].lists = NotListed)}

InitRelease ==
    /\ rels \in ReleaseFiles
    /\ rdone = {}
    /\ byhash = TRUE
    /\ filMap = <<>>
    /\ rret = ""

\* addFileInfoToList, lines 374-394.
addFileInfoToList(fi, fil, bh) ==
    IF fil = <<>> THEN [err |-> "", fil |-> <<fi>>]
    ELSE IF \E i \in DOMAIN fil : Same(fil[i], fi) THEN [err |-> "", fil |-> fil]
    ELSE IF ~bh THEN [err |-> "inconsistent checksum", fil |-> fil]
    ELSE [err |-> "", fil |-> Append(fil, fi)]

\* Lines 437-439.
ByHashAfter(r) == IF byhash /\ ~r.gpg THEN r.by ELSE byhash

\* One turn of the loop of lines 412-447: the result of some release whose
\* download has ended.
ReleaseResult ==
    /\ rret = ""
    /\ \E i \in ReleaseIds \ rdone :
        LET r == rels[i]
            bh == ByHashAfter(r)
            a == addFileInfoToList(CopyWithFileInfo(r.lists, "p"), filMap, bh)
        IN  /\ rdone' = rdone \cup {i}
            /\ IF r.status \in 400..499
               THEN UNCHANGED <<byhash, filMap, rret>>
               ELSE /\ byhash' = bh
                    /\ IF r.lists = NotListed
                       THEN UNCHANGED <<filMap, rret>>
                       ELSE /\ filMap' = a.fil
                            /\ rret' = a.err
    /\ UNCHANGED rels
    /\ UNCHANGED <<cacheVars, mirrorVars, downloadVars, lockVars, storeVars, pathVars>>

\* Line 449: return filMap, byhash, nil.
ReleaseReturn ==
    /\ rret = ""
    /\ rdone = ReleaseIds
    /\ rret' = "ok"
    /\ UNCHANGED <<rels, rdone, byhash, filMap>>
    /\ UNCHANGED <<cacheVars, mirrorVars, downloadVars, lockVars, storeVars, pathVars>>

NextRelease == ReleaseResult \/ ReleaseReturn

\* downloadRelease is not running.
ReleaseIdle ==
    /\ rels = [i \in ReleaseIds |->
                 [gpg |-> FALSE, by |-> FALSE, status |-> 404, lists |-> NotListed]]
    /\ rdone = {}
    /\ byhash = TRUE
    /\ filMap = <<>>
    /\ rret = ""

-----------------------------------------------------------------------------
(* Properties of downloadRelease, checked under SpecRelease.               *)

Fetched == {i \in ReleaseIds : rels[i].status = 200}

\* Two fetched releases list p with FileInfos that are not Same.
Conflict ==
    \E i, j \in Fetched :
        /\ rels[i].lists # NotListed /\ rels[j].lists # NotListed
        /\ ~Same(CopyWithFileInfo(rels[i].lists, "p"), CopyWithFileInfo(rels[j].lists, "p"))

\* C26: whatever the order of the results, the flag returned is true iff every
\* fetched release other than Release.gpg supports by-hash, and with the flag
\* false and two fetched releases in conflict on a path downloadRelease fails:
\* it never returns conflicting FileInfos together with by-hash = false.
ReleaseOrderIndependent ==
    rret = "ok" =>
        /\ byhash <=> \A i \in Fetched : rels[i].gpg \/ rels[i].by
        /\ ~byhash => (~Conflict /\ Len(filMap) <= 1)

-----------------------------------------------------------------------------
(* The specifications: one engine runs, the other one is not started.      *)

CacheIdle ==
    /\ capacity = 0 /\ used = 0 /\ cache = EmptyMap /\ lru = <<>> /\ ents = EmptyMap
    /\ lclock = 0 /\ disk = EmptyMap
    /\ last = [op |-> "NewStorage", path |-> "", fi |-> MakeFileInfoNoChecksum("", 0),
               res |-> "ok", log |-> <<>>]

MirrorIdle == InitMirror /\ ~fs.current

AuxIdle == DownloadIdle /\ LockIdle /\ StoreIdle /\ PathIdle /\ ReleaseIdle

InitCacheOnly == InitCache /\ MirrorIdle /\ AuxIdle

InitMirrorOnly == InitMirror /\ CacheIdle /\ AuxIdle

InitDownloadOnly == InitDownload /\ CacheIdle /\ MirrorIdle /\ LockIdle /\ StoreIdle /\ PathIdle /\ ReleaseIdle

InitLockOnly == InitLock /\ CacheIdle /\ MirrorIdle /\ DownloadIdle /\ StoreIdle /\ PathIdle /\ ReleaseIdle

InitStoreOnly == InitStore /\ CacheIdle /\ MirrorIdle /\ DownloadIdle /\ LockIdle /\ PathIdle /\ ReleaseIdle

InitPathOnly == InitPath /\ CacheIdle /\ MirrorIdle /\ DownloadIdle /\ LockIdle /\ StoreIdle /\ ReleaseIdle

InitReleaseOnly ==
    InitRelease /\ CacheIdle /\ MirrorIdle /\ DownloadIdle /\ LockIdle /\ StoreIdle /\ PathIdle

SpecCache == InitCacheOnly /\ [][NextCache]_vars

SpecMirror == InitMirrorOnly /\ [][NextMirror]_vars

\* A goroutine that can take a step takes one: the scheduler is fair, and a
\* request ends, with a response or with an error.
SpecDownload == InitDownloadOnly /\ [][NextDownload]_vars /\ WF_vars(DownloadSteps)

SpecLock == InitLockOnly /\ [][NextLock]_vars

SpecStore == InitStoreOnly /\ [][NextStore]_vars

SpecPath == InitPathOnly /\ [][NextPath]_vars

SpecRelease == InitReleaseOnly /\ [][NextRelease]_vars

====
